---- MODULE Spec2Model ----
(***************************************************************************)
(* Model of the calendar subsystem of "Managing U and Me" (src/main.py):   *)
(* the calendar_events / time_tracking tables of the SQLite store, the     *)
(* additive migration ensure_calendar_schema, the column-aware insert      *)
(* add_calendar_event with its derived time tracking, the ordered query    *)
(* get_calendar_events and the month grid of generate_calendar_view; and   *)
(* of the tables around it: couple_accounts with signup and login, the     *)
(* income / expenses / savings ledgers, savings_goals and todos, with the  *)
(* aggregations the analytics page draws from them; and of the session:    *)
(* the screen the script draws, partner selection, the page buttons,       *)
(* Logout, and the month navigation of the calendar page.                  *)
(*                                                                         *)
(* Text values are sequences of one-character strings where the code       *)
(* parses, slices or compares them (dates, times), and one-token sequences *)
(* where the code only stores them.  SQL NULL / Python None is NULL.       *)
(***************************************************************************)
EXTENDS Integers, Sequences, FiniteSets, TLC

VARIABLES
    cols,           \* calendar_events: the live column set (PRAGMA table_info)
    calendar_events, \* calendar_events: the committed rows, in rowid order
    time_tracking,  \* time_tracking: the committed rows, in rowid order
    phase,          \* "top": script start pending; "ready": handlers may run;
                    \* "api": the functions are called directly, in any order
    pc,             \* position inside add_calendar_event
    call,           \* arguments and locals of the running add_calendar_event
    pending,        \* rows inserted on the call's connection, not yet committed
    lastAdd,        \* the last add_calendar_event call that ended, and how
    lastOp,         \* the last store operation that ended
    schemaErr,      \* ensure_calendar_schema raised
    query,          \* arguments of the last get_calendar_events
    result,         \* rows returned by the last get_calendar_events
    partner1_name,  \* st.session_state.partner1_name
    partner2_name,  \* st.session_state.partner2_name
    couple_id,      \* st.session_state.couple_id
    current_partner, \* st.session_state.current_partner
    page,           \* st.session_state.page
    calendar_month, \* st.session_state.calendar_month
    calendar_year,  \* st.session_state.calendar_year
    lastNav,        \* the last two Prev / Next / Today clicks, latest first,
                    \* each with the month and year it started from
    year,           \* generate_calendar_view: argument
    month,          \* generate_calendar_view: argument
    today,          \* generate_calendar_view: date.today()
    grid,           \* generate_calendar_view: the day cells it emitted
    couple_accounts, \* couple_accounts: the committed rows, in rowid order
    authenticated,  \* st.session_state.authenticated
    income,         \* income: the committed rows, in rowid order
    expenses,       \* expenses: the committed rows, in rowid order
    savings,        \* savings: the committed rows, in rowid order
    savings_goals,  \* savings_goals: the committed rows, in rowid order
    todos,          \* todos: the committed rows, in rowid order
    answer          \* what the last account, ledger or analytics call
                    \* returned, with its arguments

storeVars == <<cols, calendar_events, time_tracking>>
callVars == <<pc, call, pending>>
histVars == <<lastAdd, lastOp, schemaErr>>
queryVars == <<query, result>>
sessionVars == <<partner1_name, partner2_name, couple_id, current_partner,
                 page, calendar_month, calendar_year, lastNav>>
renderVars == <<year, month, today, grid>>
accountVars == <<couple_accounts, authenticated>>
ledgerVars == <<income, expenses, savings, savings_goals, todos>>
restVars == <<sessionVars, accountVars, ledgerVars, answer>>
vars == <<cols, calendar_events, time_tracking, phase, pc, call, pending,
          lastAdd, lastOp,
          schemaErr, query, result, partner1_name, partner2_name,
          couple_id, current_partner, page, calendar_month, calendar_year,
          lastNav,
          year, month, today, grid, couple_accounts, authenticated,
          income, expenses, savings, savings_goals, todos, answer>>

(***************************************************************************)
(* Bounds                                                                  *)
(***************************************************************************)
MaxEvents == 2
MaxStoreEvents == 2
MaxQueryEvents == 2
MaxSchemaEvents == 2
MaxDurationEvents == 1
MaxLedgerRows == 3
MaxAccounts == 2
MaxGoals == 2
MaxTenancyRows == 2
MaxTrackingRows == 2
MaxDayEvents == 5
MaxAssignEvents == 1
MaxSessionAccounts == 3
MaxNavYears == 5
FirstYear == 2021
YearSpan == 8

(***************************************************************************)
(* Text                                                                    *)
(***************************************************************************)
NULL == <<"NULL">>
Empty == <<>>
Txt(token) == <<token>>

Digits == <<"0", "1", "2", "3", "4", "5", "6", "7", "8", "9">>
IsDigit(ch) == \E i \in 1..10 : Digits[i] = ch
DigitVal(ch) == (CHOOSE i \in 1..10 : Digits[i] = ch) - 1
DigitChar(n) == Digits[n + 1]

\* Code points of the characters that occur in dates and times.
Ord(ch) ==
    IF IsDigit(ch) THEN 48 + DigitVal(ch)
    ELSE IF ch = "-" THEN 45
    ELSE IF ch = ":" THEN 58
    ELSE IF ch = " " THEN 32
    ELSE 120

\* Python truthiness of an optional string: None and '' are false.
Truthy(s) == s # NULL /\ s # Empty

RECURSIVE StrLess(_, _)
\* Binary (memcmp) order of two texts, as SQLite's BINARY collation.
StrLess(a, b) ==
    IF b = Empty THEN FALSE
    ELSE IF a = Empty THEN TRUE
    ELSE IF Ord(Head(a)) # Ord(Head(b)) THEN Ord(Head(a)) < Ord(Head(b))
    ELSE StrLess(Tail(a), Tail(b))

StrLeq(a, b) == a = b \/ StrLess(a, b)

Pad2(n) == <<DigitChar(n \div 10), DigitChar(n % 10)>>
Pad4(n) == <<DigitChar(n \div 1000), DigitChar((n \div 100) % 10),
             DigitChar((n \div 10) % 10), DigitChar(n % 10)>>

\* str(datetime.date(y, m, d))
DateStr(y, m, d) == Pad4(y) \o <<"-">> \o Pad2(m) \o <<"-">> \o Pad2(d)
\* str(datetime.time(h, mi))[:5]
TimeStr(h, mi) == Pad2(h) \o <<":">> \o Pad2(mi)

AllDigits(s) == \A i \in 1..Len(s) : IsDigit(s[i])
RECURSIVE Number(_)
Number(s) == IF s = Empty THEN 0
             ELSE 10 * Number(SubSeq(s, 1, Len(s) - 1)) + DigitVal(s[Len(s)])

ParseError == -1

\* The %H:%M part of datetime.strptime: one or two digits of hour (0..23), a
\* colon, one or two digits of minute (0..59), and nothing after them.
\* The result is the minute of the day, or ParseError (ValueError).
ParseHM(s) ==
    IF s = NULL THEN ParseError
    ELSE IF \E hl \in 1..2, ml \in 1..2 :
               /\ Len(s) = hl + 1 + ml
               /\ s[hl + 1] = ":"
               /\ AllDigits(SubSeq(s, 1, hl))
               /\ AllDigits(SubSeq(s, hl + 2, Len(s)))
               /\ Number(SubSeq(s, 1, hl)) <= 23
               /\ Number(SubSeq(s, hl + 2, Len(s))) <= 59
    THEN LET hl == CHOOSE k \in 1..2 : k + 1 <= Len(s) /\ s[k + 1] = ":"
         IN  60 * Number(SubSeq(s, 1, hl)) + Number(SubSeq(s, hl + 2, Len(s)))
    ELSE ParseError

\* The %Y-%m-%d part of datetime.strptime accepts the date text.
DateOk(s) ==
    /\ s # NULL
    /\ Len(s) = 10
    /\ s[5] = "-" /\ s[8] = "-"
    /\ AllDigits(SubSeq(s, 1, 4)) /\ AllDigits(SubSeq(s, 6, 7))
    /\ AllDigits(SubSeq(s, 9, 10))
    /\ Number(SubSeq(s, 1, 4)) >= 1
    /\ Number(SubSeq(s, 6, 7)) \in 1..12
    /\ Number(SubSeq(s, 9, 10)) \in 1..31

(***************************************************************************)
(* Schema Store: calendar_events and ensure_calendar_schema                *)
(***************************************************************************)
\* Columns every shape of calendar_events has had.
BaseCols == {"id", "couple_id", "date", "title"}
TimeCols == <<"time", "start_time", "end_time">>
\* The (name, default) list of the defensive loop.
NewerColsShort == <<
    <<"timezone", Txt("Asia/Tokyo")>>,
    <<"assigned_to", NULL>>,
    <<"created_by", NULL>>,
    <<"category", NULL>>,
    <<"color", NULL>>,
    <<"description", NULL>>,
    <<"recurrence", Txt("none")>>,
    <<"created_at", NULL>> >>
NewerCols == <<
    <<"timezone", Txt("Asia/Tokyo")>>,
    <<"assigned_to", NULL>>,
    <<"created_by", NULL>>,
    <<"category", NULL>>,
    <<"color", NULL>>,
    <<"description", NULL>>,
    <<"recurrence", Txt("none")>>,
    <<"created_at", NULL>>,
    <<"partner_name", NULL>> >>
TargetCols == {TimeCols[i] : i \in 1..Len(TimeCols)}
              \cup {NewerCols[i][1] : i \in 1..Len(NewerCols)}
FullCols == BaseCols \cup TargetCols

\* The table as a statement sees it: column set, rows, and whether a statement
\* has raised (an exception skips the statements after it).
Table(c, r, e) == [cols |-> c, rows |-> r, err |-> e]

\* ALTER TABLE calendar_events ADD COLUMN name [DEFAULT dflt]: raises
\* "duplicate column name" when the column exists; otherwise every existing
\* row reads the default in the new column.
AlterAdd(t, name, dflt) ==
    IF t.err THEN t
    ELSE IF name \in t.cols THEN [t EXCEPT !.err = TRUE]
    ELSE Table(t.cols \cup {name},
               [i \in 1..Len(t.rows) |->
                   [c \in t.cols \cup {name} |->
                       IF c = name THEN dflt ELSE t.rows[i][c]]],
               FALSE)

\* "if name not in cols", on the column set read by PRAGMA table_info.
NeedsAddAlways(name, seen) == TRUE
NeedsAdd(name, seen) == name \notin seen

AddIfMissing(t, name, dflt, seen) ==
    IF NeedsAdd(name, seen) THEN AlterAdd(t, name, dflt) ELSE t

\* COALESCE(a, b)
Coalesce2(a, b) == IF a # NULL THEN a ELSE b
\* COALESCE(a, b, c)
Coalesce3(a, b, c) == IF a # NULL THEN a ELSE IF b # NULL THEN b ELSE c

\* UPDATE calendar_events SET start_time = COALESCE(start_time, time)
\* WHERE (start_time IS NULL OR start_time = '')
BackfillRow(r) ==
    IF r["start_time"] = NULL \/ r["start_time"] = Empty
    THEN [r EXCEPT !["start_time"] = Coalesce2(r["start_time"], r["time"])]
    ELSE r

Backfill(t) ==
    IF t.err THEN t
    ELSE Table(t.cols, [i \in 1..Len(t.rows) |-> BackfillRow(t.rows[i])], FALSE)

RECURSIVE AddNewer(_, _, _)
\* The loop over NewerCols, from its i-th entry on.
AddNewer(t, i, seen) ==
    IF i > Len(NewerCols) THEN t
    ELSE AddNewer(AddIfMissing(t, NewerCols[i][1], NewerCols[i][2], seen),
                  i + 1, seen)

\* ensure_calendar_schema as a function of the table it finds.
\* The three "Add missing time columns" statements.  No transaction is open
\* yet (DDL opens none), so each ALTER is committed as it executes.
EnsureTimeCols(t) ==
    LET seen == t.cols
        t1 == AddIfMissing(t, "time", NULL, seen)
        t2 == AddIfMissing(t1, "start_time", NULL, seen)
    IN  AddIfMissing(t2, "end_time", NULL, seen)

\* ensure_calendar_schema as a function of the table it finds: the table as
\* the last statement leaves it, with err set when a statement raised.
EnsureSchema(t) == AddNewer(Backfill(EnsureTimeCols(t)), 1, t.cols)

\* What the store holds once ensure_calendar_schema has ended.  The UPDATE
\* opens the transaction that conn.commit() ends; an exception leaves it to
\* be rolled back, and only the ALTERs before the UPDATE stay.
EnsureOutcome(t) ==
    IF EnsureSchema(t).err
    THEN [EnsureTimeCols(t) EXCEPT !.err = TRUE]
    ELSE EnsureSchema(t)

(***************************************************************************)
(* Event Repository: add_calendar_event, add_time_tracking                 *)
(***************************************************************************)
\* columns = ['couple_id', 'date', 'title', 'color', 'description']
RequiredCols == {"couple_id", "date", "title", "color", "description"}
\* The columns appended only "if ... in existing_columns".
CheckedCols == {"partner_name", "time", "start_time", "end_time", "timezone",
                "assigned_to", "created_by", "category", "recurrence",
                "created_at"}

\* The column list of the INSERT, given existing_columns.
columns_unchecked(existing) == RequiredCols \cup CheckedCols
columns(existing) == RequiredCols \cup (CheckedCols \cap existing)

\* The value bound to each column of the INSERT.
InsertValue(c, a) ==
    CASE c = "couple_id" -> a.couple_id
      [] c = "date" -> a.date_str
      [] c = "title" -> a.title
      [] c = "color" -> a.color
      [] c = "description" -> a.description
      [] c = "partner_name" -> a.created_by
      [] c = "time" -> IF Truthy(a.start_time) THEN a.start_time ELSE Empty
      [] c = "start_time" -> a.start_time
      [] c = "end_time" -> a.end_time
      [] c = "timezone" -> a.timezone
      [] c = "assigned_to" -> a.assigned_to
      [] c = "created_by" -> a.created_by
      [] c = "category" -> a.category
      [] c = "recurrence" -> a.recurrence
      [] c = "created_at" -> Txt("now")
      [] OTHER -> NULL

\* INSERT INTO calendar_events (columns) raises "no column named ..." unless
\* the table has every column it names.
InsertFails(named, live) == ~(named \subseteq live)

\* The row the INSERT adds: AUTOINCREMENT id, the bound values, NULL elsewhere.
NewRow(named, live, a, id) ==
    [c \in live |-> IF c = "id" THEN id
                    ELSE IF c \in named THEN InsertValue(c, a)
                    ELSE NULL]

\* int(x / 60) truncates toward zero.
IntDiv60(secs) == IF secs >= 0 THEN secs \div 60 ELSE -((-secs) \div 60)

\* duration = max(0, int((end_dt - start_dt).total_seconds() / 60))
DurationNoClamp(sm, em) == IntDiv60(60 * (em - sm))
Duration(sm, em) ==
    IF IntDiv60(60 * (em - sm)) > 0 THEN IntDiv60(60 * (em - sm)) ELSE 0

\* "if start_time and end_time and 'start_time' in existing_columns"
TrackingGuard(a, existing) ==
    Truthy(a.start_time) /\ Truthy(a.end_time) /\ "start_time" \in existing

\* Both datetime.strptime calls of the try block return.
Parses(a) ==
    /\ DateOk(a.date_str)
    /\ ParseHM(a.start_time) # ParseError
    /\ ParseHM(a.end_time) # ParseError

NoDuration == -1

\* The partners add_time_tracking is to be called for, in order.
PartnersFor(assigned_to, p1, p2) ==
    IF assigned_to = Txt("both") THEN <<p1, p2>>
    ELSE IF assigned_to = Txt("partner1") THEN <<p1>>
    ELSE <<p2>>

\* Another connection holds the store's write lock: the INSERT of a second
\* connection waits out the busy timeout and raises "database is locked".
WriteLocked == pending # <<>>

TrackingRow(a, partner, id) ==
    [id |-> id, couple_id |-> a.couple_id, partner_name |-> partner,
     category |-> a.category, date |-> a.date_str,
     duration_minutes |-> a.duration]

\* The call's arguments as the form handler passes them, with the locals
\* and the value the call returns: None, the function has no return.
CallOf(c, a, d, s, e, t) ==
    [couple_id |-> c, assigned_to |-> a, created_by |-> partner1_name,
     date_str |-> d, start_time |-> s, end_time |-> e,
     timezone |-> Txt("Asia/Tokyo"),
     title |-> t, category |-> Txt("work"), color |-> Txt("blue"),
     description |-> Txt("note"), recurrence |-> Txt("none"),
     existing_columns |-> cols, id |-> Len(calendar_events) + 1,
     trackBase |-> Len(time_tracking),
     duration |-> NoDuration, todo |-> <<>>, outcome |-> "running",
     value |-> NULL]

NoCall == [outcome |-> "none"]

\* A script run or direct call has ended: Streamlit reruns the script from
\* its top; a direct caller may call anything next.
AfterHandler == IF phase = "api" THEN "api" ELSE "top"

\* add_calendar_event up to cur.execute(query, values): PRAGMA table_info,
\* the column list, the INSERT.  An INSERT that raises ends the call.
add_calendar_event(c, a, d, s, e, t) ==
    /\ pc = "idle"
    /\ phase \in {"ready", "api"}
    /\ LET args == CallOf(c, a, d, s, e, t)
           named == columns(args.existing_columns)
       IN  IF InsertFails(named, cols)
           THEN /\ lastAdd' = [args EXCEPT !.outcome = "raised"]
                /\ lastOp' = "add"
                /\ phase' = AfterHandler
                /\ UNCHANGED callVars
           ELSE /\ call' = args
                /\ pending' = <<NewRow(named, cols, args, args.id)>>
                /\ pc' = "inserted"
                /\ UNCHANGED <<lastAdd, lastOp, phase>>
    /\ result' = <<>>
    /\ query' = NoCall
    /\ UNCHANGED <<storeVars, schemaErr, restVars, renderVars>>

\* "if duration > 0"
DurationPositiveAlways(dur) == TRUE
DurationPositive(dur) == dur > 0

\* The try block up to the first add_time_tracking call: the two strptime
\* calls (either may raise ValueError), the duration, the choice of partners.
TryBlock(a, p1, p2) ==
    IF ~Parses(a)
    THEN [raised |-> TRUE, duration |-> NoDuration, todo |-> <<>>]
    ELSE LET dur == Duration(ParseHM(a.start_time), ParseHM(a.end_time))
         IN  [raised |-> FALSE, duration |-> dur,
              todo |-> IF DurationPositive(dur)
                       THEN PartnersFor(a.assigned_to, p1, p2)
                       ELSE <<>>]

\* "except: pass": whether an exception raised inside the try block leaves
\* add_calendar_event.
PropagatesUncaught(raised) == raised
Propagates(raised) == FALSE

\* An exception leaves add_calendar_event: nothing is committed, and the
\* open transaction goes with the connection.
EndRaised ==
    /\ pending' = <<>>
    /\ pc' = "idle"
    /\ lastAdd' = [call EXCEPT !.outcome = "raised"]
    /\ lastOp' = "add"
    /\ call' = NoCall
    /\ phase' = AfterHandler

\* The "Time tracking" block up to the first add_time_tracking call.
add_calendar_event_duration ==
    /\ pc = "inserted"
    /\ LET b == TryBlock(call, partner1_name, partner2_name)
       IN  IF ~TrackingGuard(call, call.existing_columns)
           THEN /\ pc' = "tracking"
                /\ UNCHANGED <<call, pending, phase, histVars>>
           ELSE IF Propagates(b.raised)
           THEN EndRaised /\ UNCHANGED schemaErr
           ELSE /\ pc' = "tracking"
                /\ call' = [call EXCEPT !.duration = b.duration,
                                        !.todo = b.todo]
                /\ UNCHANGED <<pending, phase, histVars>>
    /\ UNCHANGED <<storeVars, queryVars, restVars, renderVars>>

\* One add_time_tracking call: a second connection inserts and commits one
\* time_tracking row.  When it raises, the bare except ends the block.
add_time_tracking ==
    /\ pc = "tracking"
    /\ call.todo # <<>>
    /\ IF ~WriteLocked
       THEN /\ time_tracking' = Append(time_tracking,
                   TrackingRow(call, Head(call.todo), Len(time_tracking) + 1))
            /\ call' = [call EXCEPT !.todo = Tail(call.todo)]
            /\ UNCHANGED <<pc, pending, phase, histVars>>
       ELSE IF Propagates(TRUE)
       THEN EndRaised /\ UNCHANGED <<time_tracking, schemaErr>>
       ELSE /\ call' = [call EXCEPT !.todo = <<>>]
            /\ UNCHANGED <<time_tracking, pc, pending, phase, histVars>>
    /\ UNCHANGED <<cols, calendar_events, queryVars, restVars, renderVars>>

\* conn.commit(); conn.close(): the event row becomes durable, the call
\* returns (None) and the form handler reruns the script.
add_calendar_event_commit ==
    /\ pc = "tracking"
    /\ call.todo = <<>>
    /\ calendar_events' = calendar_events \o pending
    /\ pending' = <<>>
    /\ pc' = "idle"
    /\ lastAdd' = [call EXCEPT !.outcome = "returned"]
    /\ lastOp' = "add"
    /\ call' = NoCall
    /\ phase' = AfterHandler
    /\ UNCHANGED <<cols, time_tracking, schemaErr, queryVars, restVars,
                   renderVars>>

\* The process dies, or the call is interrupted, between the INSERT and the
\* commit: the open transaction of the call's connection is rolled back.
Crash ==
    /\ pc \in {"inserted", "tracking"}
    /\ pending' = <<>>
    /\ pc' = "idle"
    /\ lastAdd' = [outcome |-> "crashed", id |-> call.id]
    /\ lastOp' = "add"
    /\ call' = NoCall
    /\ phase' = AfterHandler
    /\ UNCHANGED <<storeVars, schemaErr, queryVars, restVars, renderVars>>

\* ensure_calendar_schema(): at the top of every script run, or called
\* directly.  When it raises, the script run ends there.
ensure_calendar_schema ==
    /\ pc = "idle"
    /\ phase \in {"top", "api"}
    /\ LET out == EnsureOutcome(Table(cols, calendar_events, FALSE))
       IN  /\ cols' = out.cols
           /\ calendar_events' = out.rows
           /\ schemaErr' = out.err
           /\ phase' = IF phase = "api" THEN "api"
                       ELSE IF out.err THEN "top" ELSE "ready"
    /\ lastOp' = IF lastOp \in {"ensure", "ensure again"}
                 THEN "ensure again" ELSE "ensure"
    /\ result' = <<>>
    /\ query' = NoCall
    /\ UNCHANGED <<time_tracking, callVars, lastAdd, restVars, renderVars>>

\* Any widget interaction that writes nothing: Streamlit reruns the script.
Rerun ==
    /\ pc = "idle"
    /\ phase = "ready"
    /\ phase' = "top"
    /\ result' = <<>>
    /\ query' = NoCall
    /\ UNCHANGED <<storeVars, callVars, histVars, restVars, renderVars>>

(***************************************************************************)
(* Event Repository: get_calendar_events                                   *)
(***************************************************************************)
\* sort_expr, chosen from the live columns, evaluated on one row.
sort_expr_start_only(r, live) ==
    IF "start_time" \in live THEN Coalesce2(r["start_time"], Empty) ELSE Empty
sort_expr(r, live) ==
    IF "start_time" \in live /\ "time" \in live
    THEN Coalesce3(r["start_time"], r["time"], Empty)
    ELSE IF "start_time" \in live THEN Coalesce2(r["start_time"], Empty)
    ELSE IF "time" \in live THEN Coalesce2(r["time"], Empty)
    ELSE Empty

\* "if start_date and end_date": only then is the BETWEEN term added.
RangeGiven(sd, ed) == Truthy(sd) /\ Truthy(ed)

\* date BETWEEN ? AND ?
BetweenOpenEnd(x, lo, hi) == StrLeq(lo, x) /\ StrLess(x, hi)
Between(x, lo, hi) == StrLeq(lo, x) /\ StrLeq(x, hi)

\* The WHERE clause on one row.
where(r, couple, sd, ed) ==
    /\ r["couple_id"] = couple
    /\ RangeGiven(sd, ed) => Between(r["date"], sd, ed)

\* SELECT *, sort_expr AS sort_time: the row with its sort_time column.
WithSortTime(r, live) ==
    [c \in live \cup {"sort_time"} |->
        IF c = "sort_time" THEN sort_expr(r, live) ELSE r[c]]

\* ORDER BY date, sort_time: row a may come before row b.
Ordered(a, b) ==
    \/ StrLess(a["date"], b["date"])
    \/ a["date"] = b["date"] /\ StrLeq(a["sort_time"], b["sort_time"])

\* The indices of the rows the WHERE clause keeps.
Selected(rows, couple, sd, ed) ==
    {i \in 1..Len(rows) : where(rows[i], couple, sd, ed)}

\* Every order in which the query may return the kept rows: ORDER BY fixes
\* the order up to rows with equal (date, sort_time).
QueryResults(rows, live, couple, sd, ed) ==
    LET keep == Selected(rows, couple, sd, ed)
        n == Cardinality(keep)
    IN  {[k \in 1..n |-> WithSortTime(rows[p[k]], live)] :
            p \in {q \in [1..n -> keep] :
                     /\ \A i, j \in 1..n : i # j => q[i] # q[j]
                     /\ \A i \in 1..n, j \in 1..n :
                           i < j => Ordered(WithSortTime(rows[q[i]], live),
                                            WithSortTime(rows[q[j]], live))}}

\* get_calendar_events(couple_id, start_date, end_date): reads the committed
\* rows on a connection of its own.
get_calendar_events(c, sd, ed) ==
    /\ pc = "idle"
    /\ phase \in {"ready", "api"}
    /\ result' \in QueryResults(calendar_events, cols, c, sd, ed)
    /\ query' = [outcome |-> "returned", couple_id |-> c, start_date |-> sd,
                 end_date |-> ed]
    /\ lastOp' = "get"
    /\ UNCHANGED <<storeVars, phase, callVars, lastAdd, schemaErr,
                   restVars, renderVars>>

(***************************************************************************)
(* Calendar Renderer: generate_calendar_view                               *)
(***************************************************************************)
\* calendar.isleap
IsLeap(y) == y % 4 = 0 /\ (y % 100 # 0 \/ y % 400 = 0)

MDays == <<31, 28, 31, 30, 31, 30, 31, 31, 30, 31, 30, 31>>
\* calendar.monthrange(y, m)[1]
DaysInMonth(y, m) == MDays[m] + (IF m = 2 /\ IsLeap(y) THEN 1 ELSE 0)

RECURSIVE DaysBeforeMonth(_, _)
DaysBeforeMonth(y, m) ==
    IF m = 1 THEN 0 ELSE DaysBeforeMonth(y, m - 1) + DaysInMonth(y, m - 1)

\* date(y, m, d).toordinal()
Ordinal(y, m, d) ==
    (y - 1) * 365 + (y - 1) \div 4 - (y - 1) \div 100 + (y - 1) \div 400
    + DaysBeforeMonth(y, m) + d

\* date(y, m, d).weekday(): Monday is 0
Weekday(y, m, d) == (Ordinal(y, m, d) + 6) % 7

\* The blank cells before day 1 and after the last day (firstweekday = 0).
DaysBefore(y, m) == Weekday(y, m, 1)
DaysAfterNone(y, m) == 0
DaysAfter(y, m) == (7 - ((Weekday(y, m, 1) + DaysInMonth(y, m)) % 7)) % 7

\* calendar.monthcalendar(y, m), its weeks laid end to end: 0 is a day
\* outside the month.
MonthDays(y, m) ==
    [i \in 1..(DaysBefore(y, m) + DaysInMonth(y, m) + DaysAfter(y, m)) |->
        IF i <= DaysBefore(y, m) \/ i > DaysBefore(y, m) + DaysInMonth(y, m)
        THEN 0
        ELSE i - DaysBefore(y, m)]

\* color_map.get(event.get('color', 'blue'), '#4ECDC4')
ColorHex(color) ==
    CASE color = Txt("red") -> "#FF6B6B"
      [] color = Txt("blue") -> "#4ECDC4"
      [] color = Txt("green") -> "#95E77E"
      [] color = Txt("yellow") -> "#FFD93D"
      [] color = Txt("purple") -> "#A8E6CF"
      [] color = Txt("orange") -> "#FFB6C1"
      [] color = Txt("cyan") -> "#87CEEB"
      [] color = Txt("pink") -> "#FFB6C1"
      [] OTHER -> "#4ECDC4"

\* s[:n]
Slice(s, n) == IF Len(s) > n THEN SubSeq(s, 1, n) ELSE s

\* title[:n] followed by '...' when the title is longer than n.
Clip(title, n) ==
    IF Len(title) > n THEN Slice(title, n) \o <<".", ".", ".">> ELSE title

\* The box of one event: with its time when time_str is truthy.
EventBox(event) ==
    IF Truthy(event.start_time)
    THEN [color |-> ColorHex(event.color),
          time |-> Slice(event.start_time, 5),
          title |-> Clip(event.title, 15)]
    ELSE [color |-> ColorHex(event.color),
          time |-> Empty,
          title |-> Clip(event.title, 20)]

max_events == 3

\* events_df[events_df['date'] == str(day_date)]
DayEvents(events_df, day_date) ==
    SelectSeq(events_df, LAMBDA event : event.date = day_date)

\* remaining = len(day_events) - max_events
RemainingAll(day_events) == Len(day_events)
Remaining(day_events) == Len(day_events) - max_events

\* "for _, event in day_events.iterrows()" from row n on, event_count boxes
\* emitted so far: the boxes, and the "+N more..." line when the loop
\* breaks.
RECURSIVE EventLoop(_, _, _)
EventLoop(day_events, n, event_count) ==
    IF n > Len(day_events)
    THEN [events |-> <<>>, more |-> <<>>]
    ELSE IF event_count >= max_events
    THEN [events |-> <<>>, more |-> <<Remaining(day_events)>>]
    ELSE LET rest == EventLoop(day_events, n + 1, event_count + 1)
         IN  [events |-> <<EventBox(day_events[n])>> \o rest.events,
              more |-> rest.more]

\* The cell emitted for one entry of a week: day_idx is its place, 0..6.
DayCell(y, m, day_num, day_idx, now, events_df) ==
    IF day_num = 0
    THEN [day |-> 0, classes |-> {"calendar-day", "empty"}]
    ELSE LET shown == EventLoop(DayEvents(events_df, DateStr(y, m, day_num)),
                                1, 0)
         IN  [day |-> day_num,
              classes |-> {"calendar-day"}
                  \cup (IF <<y, m, day_num>> = now THEN {"today"} ELSE {})
                  \cup (IF day_idx >= 5 THEN {"weekend"} ELSE {}),
              events |-> shown.events,
              more |-> shown.more]

\* The cells of "for week in cal_obj: for day_idx, day_num in enumerate(week)".
CalendarCells(y, m, now, events_df) ==
    [i \in 1..Len(MonthDays(y, m)) |->
        DayCell(y, m, MonthDays(y, m)[i], (i - 1) % 7, now, events_df)]

\* generate_calendar_view(year, month, events_df) with date.today() = now;
\* events_df is the frame get_calendar_events returned.
generate_calendar_view(now) ==
    /\ today' = now
    /\ grid' = CalendarCells(year, month, now, result)
    /\ UNCHANGED <<storeVars, phase, callVars, histVars, queryVars,
                   restVars, year, month>>

\* The page is drawn again for the same month.
ClearView ==
    /\ grid # <<>>
    /\ grid' = <<>>
    /\ UNCHANGED <<storeVars, phase, callVars, histVars, queryVars,
                   restVars, year, month, today>>

(***************************************************************************)
(* Ledgers: income, expenses, savings                                      *)
(***************************************************************************)
\* The store operations below are single calls: one connection, one
\* statement, commit.  They run between calendar calls, never inside one.
Callable == pc = "idle" /\ phase \in {"ready", "api"}

Answer(op, args, value) ==
    [outcome |-> "returned", op |-> op, args |-> args, value |-> value]

\* add_transaction: the row of the INSERT, id from AUTOINCREMENT.
TxRow(id, c, partner, d, amount, source, note, m, y) ==
    [id |-> id, couple_id |-> c, partner_name |-> partner, date |-> d,
     month |-> m, year |-> y, amount |-> amount, source |-> source,
     note |-> note]

LedgerTable(table) ==
    CASE table = "income" -> income
      [] table = "expenses" -> expenses
      [] table = "savings" -> savings

\* add_transaction(table, couple_id, partner_name, date_str, amount, source,
\* note, month, year) as the "Add Income" / "Add Expense" / "Add Savings"
\* handlers call it: date_str is str(date.today()).
add_transaction(table, c, amount, m, y) ==
    /\ Callable
    /\ LET t == LedgerTable(table)
           r == TxRow(Len(t) + 1, c, partner1_name, DateStr(2025, 1, 20),
                      amount, Txt("job"), Txt("note"), m, y)
       IN  /\ income' = IF table = "income" THEN Append(t, r) ELSE income
           /\ expenses' = IF table = "expenses" THEN Append(t, r)
                          ELSE expenses
           /\ savings' = IF table = "savings" THEN Append(t, r) ELSE savings
    /\ answer' = NoCall
    /\ UNCHANGED <<storeVars, phase, callVars, histVars, queryVars,
                   sessionVars, renderVars, accountVars, savings_goals,
                   todos>>

\* "WHERE couple_id = ?"
OfAnyCouple(r, c) == TRUE
OfCouple(r, c) == r.couple_id = c

\* get_all_couple_data(table, couple_id): the household's rows.  ORDER BY
\* date DESC leaves rows of one date in rowid order.
get_all_couple_data(rows, c) == SelectSeq(rows, LAMBDA r : OfCouple(r, c))

\* get_monthly_data(table, couple_id, month, year)
get_monthly_data(rows, c, m, y) ==
    SelectSeq(rows, LAMBDA r : OfCouple(r, c) /\ r.month = m /\ r.year = y)

\* df['amount'].sum()
RECURSIVE SumAmount(_)
SumAmount(rows) ==
    IF rows = <<>> THEN 0 ELSE Head(rows).amount + SumAmount(Tail(rows))

\* inc[inc["year"] == year]
InAnyYear(r, y) == TRUE
InYear(r, y) == r.year = y

\* df[df["year"] == year].groupby("month")["amount"].sum(): one entry per
\* month that has a row; the empty frame when the household has no row.
SumByMonth(df, y) ==
    LET of_year == SelectSeq(df, LAMBDA r : InYear(r, y))
        months == {of_year[i].month : i \in 1..Len(of_year)}
    IN  [m \in months |->
            SumAmount(SelectSeq(of_year, LAMBDA r : r.month = m))]

\* base.merge(g, on="month", how="left").fillna({"amount": 0.0})
\* A month with no group gets NaN, which fillna replaces by 0.0.
LeftMerge(base, g) ==
    [m \in base |-> IF m \in DOMAIN g THEN [isna |-> FALSE, amount |-> g[m]]
                    ELSE [isna |-> TRUE]]
FillNa(col) ==
    [m \in DOMAIN col |-> IF col[m].isna THEN 0 ELSE col[m].amount]

\* The frame create_monthly_trends_chart plots: months 1..12 in order with
\* income, expenses and net = income - expenses.
MonthlyTrends(c, y) ==
    LET inc == get_all_couple_data(income, c)
        exp == get_all_couple_data(expenses, c)
        inc_y == FillNa(LeftMerge(1..12, SumByMonth(inc, y)))
        exp_y == FillNa(LeftMerge(1..12, SumByMonth(exp, y)))
    IN  [i \in 1..12 |->
            [month |-> i, income |-> inc_y[i], expenses |-> exp_y[i],
             net |-> inc_y[i] - exp_y[i]]]

create_monthly_trends_chart(c, y) ==
    /\ Callable
    /\ answer' = Answer("create_monthly_trends_chart",
                        [couple_id |-> c, year |-> y], MonthlyTrends(c, y))
    /\ UNCHANGED <<storeVars, phase, callVars, histVars, queryVars,
                   sessionVars, renderVars, accountVars, ledgerVars>>

(***************************************************************************)
(* Savings goals                                                           *)
(***************************************************************************)
\* add_savings_goal(couple_id, goal_name, target_amount): current_amount
\* takes its default 0.
add_savings_goal(c, goal_name, target_amount) ==
    /\ Callable
    /\ savings_goals' = Append(savings_goals,
          [id |-> Len(savings_goals) + 1, couple_id |-> c,
           goal_name |-> goal_name, target_amount |-> target_amount,
           current_amount |-> 0, created_date |-> DateStr(2025, 1, 20)])
    /\ answer' = NoCall
    /\ UNCHANGED <<storeVars, phase, callVars, histVars, queryVars,
                   sessionVars, renderVars, accountVars, income, expenses,
                   savings, todos>>

\* get_savings_goals(couple_id); ORDER BY created_date DESC leaves goals of
\* one day in rowid order.
get_savings_goals(c) == SelectSeq(savings_goals, LAMBDA r : OfCouple(r, c))

\* A Python float that is the quotient of two integers, kept as the pair.
Quotient(num, den) == [num |-> num, den |-> den]

\* create_savings_goals_chart(couple_id): the bars of the chart, one per
\* goal with current = total_saved / num_goals; the placeholder bar when
\* the household has no goal.
create_savings_goals_chart(c) ==
    LET goals == get_savings_goals(c)
        total_saved == SumAmount(get_all_couple_data(savings, c))
        num_goals == Len(goals)
    IN  IF goals = <<>> THEN <<>>
        ELSE [i \in 1..num_goals |->
                [goal_name |-> goals[i].goal_name,
                 current |-> Quotient(total_saved, num_goals),
                 target_amount |-> goals[i].target_amount]]

\* get_savings_progress(couple_id, goal_name):
\* 0 if df.empty else float(df['amount'].sum())
get_savings_progress(c, goal_name) ==
    Quotient(SumAmount(get_all_couple_data(savings, c)), 1)

\* "Goal Details": one line per goal with the "Saved" and "Target" metrics.
GoalDetails(c) ==
    LET goals == get_savings_goals(c)
    IN  [i \in 1..Len(goals) |->
            [goal_name |-> goals[i].goal_name,
             progress |-> get_savings_progress(c, goals[i].goal_name),
             target_amount |-> goals[i].target_amount]]

\* The "Goals" tab of the analytics page: the chart, then the details.
GoalsTab(c) ==
    /\ Callable
    /\ answer' = Answer("goals", [couple_id |-> c],
                        [chart |-> create_savings_goals_chart(c),
                         details |-> GoalDetails(c)])
    /\ UNCHANGED <<storeVars, phase, callVars, histVars, queryVars,
                   sessionVars, renderVars, accountVars, ledgerVars>>

(***************************************************************************)
(* Todos                                                                   *)
(***************************************************************************)
\* add_todo_item(couple_id, partner_name, title, task)
add_todo_item(c, partner, title, task) ==
    /\ Callable
    /\ todos' = Append(todos,
          [id |-> Len(todos) + 1, couple_id |-> c, partner_name |-> partner,
           title |-> title, task |-> task, completed |-> FALSE,
           created_date |-> DateStr(2025, 1, 20)])
    /\ answer' = NoCall
    /\ UNCHANGED <<storeVars, phase, callVars, histVars, queryVars,
                   sessionVars, renderVars, accountVars, income, expenses,
                   savings, savings_goals>>

\* get_todos(couple_id); ORDER BY created_date DESC leaves todos of one day
\* in rowid order.
get_todos(c) == SelectSeq(todos, LAMBDA r : OfCouple(r, c))

\* update_todo_status(todo_id, completed):
\* UPDATE todos SET completed = ? WHERE id = ?
update_todo_status(todo_id, completed) ==
    /\ Callable
    /\ todos' = [i \in 1..Len(todos) |->
                    IF todos[i].id = todo_id
                    THEN [todos[i] EXCEPT !.completed = completed]
                    ELSE todos[i]]
    /\ answer' = NoCall
    /\ UNCHANGED <<storeVars, phase, callVars, histVars, queryVars,
                   sessionVars, renderVars, accountVars, income, expenses,
                   savings, savings_goals>>

(***************************************************************************)
(* Time analytics                                                          *)
(***************************************************************************)
\* "WHERE couple_id = ? AND date BETWEEN ? AND ?"
Tracked(r, c, start_date, end_date) ==
    OfCouple(r, c) /\ Between(r.date, start_date, end_date)

\* "GROUP BY partner_name, category": the rows of one group.
SameCategory(r, partner, category) == r.category = category
SameGroup(r, partner, category) ==
    r.partner_name = partner /\ r.category = category

\* SUM(duration_minutes)
RECURSIVE SumMinutes(_)
SumMinutes(rows) ==
    IF rows = <<>> THEN 0
    ELSE Head(rows).duration_minutes + SumMinutes(Tail(rows))

\* get_time_analytics(couple_id, start_date, end_date): one row per group
\* that has a row; GROUP BY fixes no order, so the frame is kept as a set.
get_time_analytics(c, start_date, end_date) ==
    LET sel == SelectSeq(time_tracking,
                         LAMBDA r : Tracked(r, c, start_date, end_date))
    IN  {[partner_name |-> sel[i].partner_name,
          category |-> sel[i].category,
          total_minutes |-> SumMinutes(SelectSeq(sel, LAMBDA r :
              SameGroup(r, sel[i].partner_name, sel[i].category)))] :
            i \in 1..Len(sel)}

\* The sum of a column of whole numbers over the rows of a frame.
RECURSIVE SumTotal(_)
SumTotal(frame) ==
    IF frame = {} THEN 0
    ELSE LET g == CHOOSE x \in frame : TRUE
         IN  g.total_minutes + SumTotal(frame \ {g})

\* create_time_analytics_charts(couple_id, start_date, end_date): the
\* frames of the two charts, total_hours = total_minutes / 60.0; one
\* "No Data" figure for both when the frame is empty.
create_time_analytics_charts(c, start_date, end_date) ==
    LET data == get_time_analytics(c, start_date, end_date)
        hours == {[partner_name |-> g.partner_name, category |-> g.category,
                   total_minutes |-> g.total_minutes,
                   total_hours |-> Quotient(g.total_minutes, 60)] :
                     g \in data}
        category_totals ==
            {[category |-> cat,
              total_hours |-> Quotient(
                  SumTotal({g \in data : g.category = cat}), 60)] :
                cat \in {g.category : g \in data}}
    IN  IF data = {}
        THEN [empty |-> TRUE, data |-> data]
        ELSE [empty |-> FALSE, data |-> data, partner_chart |-> hours,
              category_chart |-> category_totals]

\* A read whose return value is kept: the store is left as it is.
Returns(op, args, value) ==
    /\ Callable
    /\ answer' = Answer(op, args, value)
    /\ UNCHANGED <<storeVars, phase, callVars, histVars, queryVars,
                   sessionVars, renderVars, accountVars, ledgerVars>>

\* The "Analytics" view of the calendar page, shown when start <= end.
TimeAnalytics(c, start_date, end_date) ==
    /\ Callable
    /\ answer' = Answer("create_time_analytics_charts",
          [couple_id |-> c, start_date |-> start_date,
           end_date |-> end_date],
          create_time_analytics_charts(c, start_date, end_date))
    /\ UNCHANGED <<storeVars, phase, callVars, histVars, queryVars,
                   sessionVars, renderVars, accountVars, ledgerVars>>

(***************************************************************************)
(* Accounts: couple_accounts, signup and login                             *)
(***************************************************************************)
\* A digest as hashlib.sha256(password.encode()).hexdigest() returns it:
\* a text that is not the password, equal for equal passwords.
hash_password(password) == <<"sha256">> \o password

Account(id, name, email, password, p1, p2) ==
    [couple_id |-> id, couple_name |-> name, email |-> email,
     password_hash |-> hash_password(password),
     partner1_name |-> p1, partner2_name |-> p2,
     created_date |-> DateStr(2025, 1, 1)]

\* couple_id = str(uuid.uuid4()): an identifier no account has yet.
Uuid(n) == <<"uuid", DigitChar(n)>>

\* "email TEXT UNIQUE NOT NULL": the INSERT raises sqlite3.IntegrityError
\* when a row already has the email.
EmailTakenNever(rows, email) == FALSE
EmailTaken(rows, email) == \E i \in 1..Len(rows) : rows[i].email = email

\* create_couple_account(couple_name, email, password, partner1_name,
\* partner2_name): returns (couple_id, None), or (None, "Email already
\* exists") from the except branch, which closes without a commit.
create_couple_account(name, email, password, p1, p2) ==
    /\ Callable
    /\ LET id == Uuid(Len(couple_accounts) + 1)
           args == [couple_name |-> name, email |-> email,
                    password |-> password]
       IN  IF EmailTaken(couple_accounts, email)
           THEN /\ answer' = Answer("create_couple_account", args,
                       [couple_id |-> NULL,
                        error |-> Txt("Email already exists")])
                /\ UNCHANGED couple_accounts
           ELSE /\ couple_accounts' = Append(couple_accounts,
                       Account(id, name, email, password, p1, p2))
                /\ answer' = Answer("create_couple_account", args,
                       [couple_id |-> id, error |-> NULL])
    /\ UNCHANGED <<storeVars, phase, callVars, histVars, queryVars,
                   sessionVars, renderVars, authenticated, ledgerVars>>

\* "WHERE email = ? AND password_hash = ?"
EmailMatches(r, email, digest) == r.email = email
CredentialsMatch(r, email, digest) ==
    r.email = email /\ r.password_hash = digest

NoIdentity ==
    [couple_id |-> NULL, couple_name |-> NULL, partner1_name |-> NULL,
     partner2_name |-> NULL]

\* verify_couple_login(email, password): cursor.fetchone() of the SELECT.
verify_couple_login(email, password) ==
    LET hit == SelectSeq(couple_accounts, LAMBDA r :
                   CredentialsMatch(r, email, hash_password(password)))
    IN  IF hit # <<>>
        THEN [couple_id |-> hit[1].couple_id,
              couple_name |-> hit[1].couple_name,
              partner1_name |-> hit[1].partner1_name,
              partner2_name |-> hit[1].partner2_name]
        ELSE NoIdentity

\* The "Login" button: verify_couple_login is called when both fields are
\* filled in; a household id that comes back sets the session.
login(email, password) ==
    /\ Callable
    /\ ~authenticated
    /\ IF Truthy(email) /\ Truthy(password)
       THEN LET who == verify_couple_login(email, password)
            IN  /\ answer' = Answer("verify_couple_login",
                        [email |-> email, password |-> password], who)
                /\ IF Truthy(who.couple_id)
                   THEN /\ authenticated' = TRUE
                        /\ couple_id' = who.couple_id
                        /\ partner1_name' = who.partner1_name
                        /\ partner2_name' = who.partner2_name
                        /\ UNCHANGED <<current_partner, page, calendar_month,
                                       calendar_year, lastNav>>
                   ELSE UNCHANGED <<authenticated, sessionVars>>
       ELSE /\ answer' = Answer("login",
                   [email |-> email, password |-> password],
                   [error |-> Txt("Please enter both email and password")])
            /\ UNCHANGED <<authenticated, sessionVars>>
    /\ UNCHANGED <<storeVars, phase, callVars, histVars, queryVars,
                   renderVars, couple_accounts, ledgerVars>>

\* The screen the script draws: the if / elif chain over the session.
DataPages == {"dashboard", "calendar", "money", "analytics", "todo"}

Screen ==
    IF ~authenticated THEN "auth"
    ELSE IF ~Truthy(current_partner) THEN "partner selection"
    ELSE IF page \in DataPages THEN page
    ELSE "blank"

\* "for key in list(st.session_state.keys()): del st.session_state[key]",
\* then the session initialisation of the next script run, on the day now.
ClearSessionAuthOnly(now) ==
    /\ authenticated' = FALSE
    /\ couple_id' = NULL
    /\ UNCHANGED <<partner1_name, partner2_name, current_partner, page,
                   calendar_month, calendar_year, lastNav>>
ClearSession(now) ==
    /\ authenticated' = FALSE
    /\ couple_id' = NULL
    /\ partner1_name' = Empty
    /\ partner2_name' = Empty
    /\ current_partner' = Empty
    /\ page' = "welcome"
    /\ calendar_month' = now[2]
    /\ calendar_year' = now[1]
    /\ lastNav' = <<>>

\* The "Logout" button of the partner selection screen and of the
\* dashboard: every session key is deleted, and the next script run
\* initialises the session again.
logout ==
    /\ Callable
    /\ Screen \in {"partner selection", "dashboard"}
    /\ ClearSession(today)
    /\ answer' = NoCall
    /\ UNCHANGED <<storeVars, phase, callVars, histVars, queryVars,
                   renderVars, couple_accounts, ledgerVars>>

\* What the session actions leave alone.
outsideSession ==
    <<storeVars, phase, callVars, histVars, queryVars, renderVars,
      accountVars, ledgerVars, answer>>

\* A partner button of the "Who's using the app?" screen.
select_partner(name) ==
    /\ Callable
    /\ Screen = "partner selection"
    /\ current_partner' = name
    /\ page' = "dashboard"
    /\ UNCHANGED <<partner1_name, partner2_name, couple_id, calendar_month,
                   calendar_year, lastNav, outsideSession>>

\* The "Switch User" button of the dashboard.
switch_user ==
    /\ Callable
    /\ Screen = "dashboard"
    /\ current_partner' = Empty
    /\ UNCHANGED <<partner1_name, partner2_name, couple_id, page,
                   calendar_month, calendar_year, lastNav, outsideSession>>

\* The page buttons: <<page shown, page the button sets>>.
PageLinks ==
    {<<"dashboard", "calendar">>, <<"dashboard", "money">>,
     <<"dashboard", "todo">>, <<"calendar", "dashboard">>,
     <<"money", "dashboard">>, <<"money", "analytics">>,
     <<"analytics", "money">>, <<"todo", "dashboard">>}

navigate(target) ==
    /\ Callable
    /\ <<Screen, target>> \in PageLinks
    /\ page' = target
    /\ UNCHANGED <<partner1_name, partner2_name, couple_id, current_partner,
                   calendar_month, calendar_year, lastNav, outsideSession>>

(***************************************************************************)
(* Calendar page: month navigation                                         *)
(***************************************************************************)
\* The month and year the "Prev" and "Next" buttons set.
PrevMonth(m, y) == IF m = 1 THEN <<12, y - 1>> ELSE <<m - 1, y>>
NextMonthSameYear(m, y) == IF m = 12 THEN <<1, y>> ELSE <<m + 1, y>>
NextMonth(m, y) == IF m = 12 THEN <<1, y + 1>> ELSE <<m + 1, y>>

Click(op) ==
    <<[op |-> op, month |-> calendar_month, year |-> calendar_year]>>
    \o (IF lastNav = <<>> THEN <<>> ELSE <<lastNav[1]>>)

NavigateTo(op, my) ==
    /\ Callable
    /\ Screen = "calendar"
    /\ calendar_month' = my[1]
    /\ calendar_year' = my[2]
    /\ lastNav' = Click(op)
    /\ UNCHANGED <<partner1_name, partner2_name, couple_id, current_partner,
                   page, outsideSession>>

Prev ==
    /\ PrevMonth(calendar_month, calendar_year)[2] >= FirstYear - MaxNavYears
    /\ NavigateTo("Prev", PrevMonth(calendar_month, calendar_year))

NextClick ==
    /\ NextMonth(calendar_month, calendar_year)[2] <= FirstYear + MaxNavYears
    /\ NavigateTo("Next", NextMonth(calendar_month, calendar_year))

\* The "Today" button, pressed on the day now.
Today(now) == NavigateTo("Today", <<now[2], now[1]>>)

(***************************************************************************)
(* Inputs                                                                  *)
(***************************************************************************)
Couples == {Txt("c1"), Txt("c2")}
Assignees == {Txt("both"), Txt("partner1"), Txt("partner2")}
Titles == {Txt("Dinner"), Txt("Gym")}
BadTime == <<"9", "x">>
Times == {NULL, TimeStr(9, 0), TimeStr(10, 30), BadTime}
StartTimes == {NULL, TimeStr(9, 0), TimeStr(10, 30)}
DayBefore == DateStr(2025, 1, 9)
RangeStart == DateStr(2025, 1, 10)
RangeEnd == DateStr(2025, 1, 20)
Dates == {DayBefore, RangeEnd}
Ranges == {<<NULL, NULL>>, <<RangeStart, RangeEnd>>, <<DayBefore, DayBefore>>,
           <<RangeStart, NULL>>}
CenturyYears == {1900, 2000, 2100}
Years == FirstYear..(FirstYear + YearSpan - 1) \cup CenturyYears
Todays == {<<FirstYear, 1, 1>>, <<FirstYear + 1, 2, 28>>}

\* Shapes an older version of the table may have: each time column, color
\* and description on their own, the remaining newer columns together.
GroupCols == {"timezone", "assigned_to", "created_by", "category",
              "recurrence", "created_at", "partner_name"}
VaryCols == {"time", "start_time", "color", "description"}
LegacyShapes ==
    {BaseCols \cup v \cup g :
        v \in SUBSET VaryCols, g \in {{}, {"end_time"} \cup GroupCols}}

(***************************************************************************)
(* Specifications                                                          *)
(***************************************************************************)
\* Rows an older version may have left in a table of the given shape: the
\* legacy time set, start_time (where the column exists) missing or empty.
LegacyRows(shape) ==
    {[c \in shape |->
         IF c = "id" THEN 1
         ELSE IF c = "couple_id" THEN Txt("c1")
         ELSE IF c = "date" THEN DayBefore
         ELSE IF c = "title" THEN Txt("Gym")
         ELSE IF c = "time" THEN TimeStr(10, 30)
         ELSE IF c = "start_time" THEN st
         ELSE NULL] : st \in {NULL, Empty}}

\* Shapes that differ in the two columns the sort expression looks for.
QueryShapes == {FullCols \ x : x \in SUBSET {"time", "start_time"}}

\* The two households of the calendar and ledger specifications, signed up.
SeedAccounts ==
    <<Account(Txt("c1"), Txt("Ann & Bob"), Txt("ab@x.jp"), Txt("secret1"),
              Txt("Ann"), Txt("Bob")),
      Account(Txt("c2"), Txt("Cy & Di"), Txt("cd@x.jp"), Txt("secret2"),
              Txt("Cy"), Txt("Di"))>>

\* A household has signed up and logged in, and partner one uses the
\* calendar page.
InitSignedIn ==
    /\ couple_accounts = SeedAccounts
    /\ authenticated = TRUE
    /\ couple_id = Txt("c1")
    /\ current_partner = Txt("Ann")
    /\ page = "calendar"

InitCommon ==
    /\ pc = "idle"
    /\ call = NoCall
    /\ pending = <<>>
    /\ lastAdd = NoCall
    /\ lastOp = "none"
    /\ schemaErr = FALSE
    /\ query = NoCall
    /\ result = <<>>
    /\ partner1_name = Txt("Ann")
    /\ partner2_name = Txt("Bob")
    /\ year = FirstYear
    /\ month = 1
    /\ today = <<FirstYear, 1, 1>>
    /\ grid = <<>>
    /\ calendar_month = 1
    /\ calendar_year = FirstYear
    /\ lastNav = <<>>
    /\ income = <<>>
    /\ expenses = <<>>
    /\ savings = <<>>
    /\ savings_goals = <<>>
    /\ todos = <<>>
    /\ answer = NoCall

\* The app: a process starts on a store of some older shape; every script
\* run begins with ensure_calendar_schema, then one handler may run.
Init ==
    /\ InitCommon
    /\ time_tracking = <<>>
    /\ InitSignedIn
    /\ cols \in LegacyShapes
    /\ calendar_events = <<>>
    /\ phase = "top"

Next ==
    \/ ensure_calendar_schema
    \/ Rerun
    \/ /\ Len(calendar_events) < MaxEvents
       /\ \E a \in Assignees, s \in Times, e \in Times :
             add_calendar_event(Txt("c1"), a, RangeEnd, s, e, Txt("Dinner"))
    \/ add_calendar_event_duration
    \/ add_time_tracking
    \/ add_calendar_event_commit
    \/ Crash

Spec == Init /\ [][Next]_vars

\* The app on a migrated store, over start and end times around the clock.
ClockTimes == {TimeStr(h, mi) : h \in {0, 9, 23}, mi \in {0, 1, 59}}

NextDuration ==
    \/ ensure_calendar_schema
    \/ Rerun
    \/ /\ Len(calendar_events) < MaxDurationEvents
       /\ \E s \in ClockTimes, e \in ClockTimes :
             add_calendar_event(Txt("c1"), Txt("partner1"), RangeEnd, s, e,
                                Txt("Dinner"))
    \/ add_calendar_event_duration
    \/ add_time_tracking
    \/ add_calendar_event_commit

SpecDuration == Init /\ [][NextDuration]_vars

\* add_calendar_event called with every partner label an event can carry,
\* the labels the form does not offer included.
AssignedLabels == Assignees \cup {Txt("unassigned"), NULL}

NextAssign ==
    \/ ensure_calendar_schema
    \/ Rerun
    \/ /\ Len(calendar_events) < MaxAssignEvents
       /\ \E a \in AssignedLabels, s \in StartTimes, e \in StartTimes :
             add_calendar_event(Txt("c1"), a, RangeEnd, s, e, Txt("Dinner"))
    \/ add_calendar_event_duration
    \/ add_time_tracking
    \/ add_calendar_event_commit

SpecAssign == Init /\ [][NextAssign]_vars

\* Signup and login on a store with no account yet.
Emails == {Txt("ab@x.jp"), Txt("cd@x.jp"), Txt("ef@x.jp")}
Passwords == {Txt("secret1"), Txt("secret2")}

InitAccounts ==
    /\ InitCommon
    /\ time_tracking = <<>>
    /\ couple_accounts = <<>>
    /\ authenticated = FALSE
    /\ couple_id = NULL
    /\ current_partner = Empty
    /\ page = "welcome"
    /\ phase = "api"
    /\ cols = FullCols
    /\ calendar_events = <<>>

NextAccounts ==
    \/ /\ Len(couple_accounts) < MaxAccounts
       /\ ~authenticated
       /\ \E email \in Emails, password \in Passwords :
             create_couple_account(Txt("Ann & Bob"), email, password,
                                   Txt("Ann"), Txt("Bob"))
    \/ \E email \in Emails \cup {Empty}, password \in Passwords \cup {Empty} :
          login(email, password)
    \/ logout

SpecAccounts == InitAccounts /\ [][NextAccounts]_vars

\* The session: two households have signed up, nobody is logged in; login,
\* signup, partner selection, Switch User, the page buttons and Logout in
\* any order.
InitSession ==
    /\ InitCommon
    /\ time_tracking = <<>>
    /\ couple_accounts = SeedAccounts
    /\ authenticated = FALSE
    /\ couple_id = NULL
    /\ current_partner = Empty
    /\ page = "welcome"
    /\ phase = "api"
    /\ cols = FullCols
    /\ calendar_events = <<>>

NextSession ==
    \/ /\ Len(couple_accounts) < MaxSessionAccounts
       /\ ~authenticated
       /\ \E email \in Emails, password \in Passwords :
             create_couple_account(Txt("Ed & Flo"), email, password,
                                   Txt("Ed"), Txt("Flo"))
    \/ \E email \in Emails \cup {Empty}, password \in Passwords \cup {Empty} :
          login(email, password)
    \/ \E name \in {partner1_name, partner2_name} : select_partner(name)
    \/ switch_user
    \/ \E target \in DataPages : navigate(target)
    \/ logout

SpecSession == InitSession /\ [][NextSession]_vars

\* The ledger pages: transactions of two households over two months of two
\* years, and the monthly trend of a year.
LedgerYears == {2024, 2025}
LedgerMonths == {1, 3}
AmountOf(m) == IF m = 1 THEN 1000 ELSE 500

InitLedger ==
    /\ InitCommon
    /\ time_tracking = <<>>
    /\ InitSignedIn
    /\ phase = "api"
    /\ cols = FullCols
    /\ calendar_events = <<>>

NextTrends ==
    \/ /\ Len(income) + Len(expenses) < MaxLedgerRows
       /\ \E table \in {"income", "expenses"}, c \in Couples,
             m \in LedgerMonths, y \in LedgerYears :
             add_transaction(table, c, AmountOf(m), m, y)
    \/ \E c \in Couples, y \in LedgerYears : create_monthly_trends_chart(c, y)

SpecTrends == InitLedger /\ [][NextTrends]_vars

\* The goals tab: savings and goals of two households.
GoalNames == {Txt("Trip"), Txt("Car")}

NextGoals ==
    \/ /\ Len(savings) < MaxLedgerRows
       /\ \E c \in Couples, m \in LedgerMonths :
             add_transaction("savings", c, AmountOf(m), m, 2025)
    \/ /\ Len(savings_goals) < MaxGoals
       /\ \E c \in Couples, g \in GoalNames : add_savings_goal(c, g, 5000)
    \/ \E c \in Couples : GoalsTab(c)

SpecGoals == InitLedger /\ [][NextGoals]_vars

\* Two households writing to every table, and every read called for either.
\* time_tracking has no writer that succeeds, so it starts as an earlier
\* writer may have left it: empty, or with an entry of each household.
SeedTracking ==
    <<[id |-> 1, couple_id |-> Txt("c1"), partner_name |-> Txt("Ann"),
       category |-> Txt("work"), date |-> RangeEnd, duration_minutes |-> 90],
      [id |-> 2, couple_id |-> Txt("c2"), partner_name |-> Txt("Cy"),
       category |-> Txt("work"), date |-> RangeEnd, duration_minutes |-> 30]>>

InitTenancy ==
    /\ InitCommon
    /\ InitSignedIn
    /\ time_tracking \in {<<>>, SeedTracking}
    /\ phase = "api"
    /\ cols = FullCols
    /\ calendar_events = <<>>

TenancyRows ==
    Len(income) + Len(expenses) + Len(savings) + Len(savings_goals)
    + Len(todos) + Len(calendar_events) + Len(pending)

NextTenancy ==
    \/ /\ TenancyRows < MaxTenancyRows
       /\ \E c \in Couples :
             \/ \E table \in {"income", "expenses", "savings"} :
                   add_transaction(table, c, 1000, 1, 2025)
             \/ add_todo_item(c, Txt("Ann"), Txt("Chores"), Txt("Dishes"))
             \/ add_savings_goal(c, Txt("Trip"), 5000)
             \/ add_calendar_event(c, Txt("both"), RangeEnd, TimeStr(9, 0),
                                   NULL, Txt("Dinner"))
    \/ add_calendar_event_duration
    \/ add_calendar_event_commit
    \/ \E i \in 1..Len(todos) : update_todo_status(i, ~todos[i].completed)
    \/ \E c \in Couples : get_calendar_events(c, NULL, NULL)
    \/ \E c \in Couples, table \in {"income", "expenses", "savings"} :
          \/ Returns("get_monthly_data",
                     [couple_id |-> c, table |-> table],
                     get_monthly_data(LedgerTable(table), c, 1, 2025))
          \/ Returns("get_all_couple_data",
                     [couple_id |-> c, table |-> table],
                     get_all_couple_data(LedgerTable(table), c))
    \/ \E c \in Couples :
          \/ Returns("get_todos", [couple_id |-> c], get_todos(c))
          \/ Returns("get_savings_goals", [couple_id |-> c],
                     get_savings_goals(c))
          \/ Returns("get_time_analytics",
                     [couple_id |-> c, start_date |-> RangeStart,
                      end_date |-> RangeEnd],
                     get_time_analytics(c, RangeStart, RangeEnd))

SpecTenancy == InitTenancy /\ [][NextTenancy]_vars

\* The time analytics over any entries time_tracking may hold: of two
\* households, two partners, two categories, on three dates.
MinutesOfCategory(category) == IF category = Txt("work") THEN 90 ELSE 30

TrackingEntries ==
    {[couple_id |-> c, partner_name |-> p, category |-> k, date |-> d,
      duration_minutes |-> MinutesOfCategory(k)] :
        c \in Couples, p \in {Txt("Ann"), Txt("Bob")},
        k \in {Txt("work"), Txt("fitness")},
        d \in {DayBefore, RangeStart, RangeEnd}}

WithId(r, id) ==
    [id |-> id, couple_id |-> r.couple_id, partner_name |-> r.partner_name,
     category |-> r.category, date |-> r.date,
     duration_minutes |-> r.duration_minutes]

AnalyticsRanges == {<<RangeStart, RangeEnd>>, <<DayBefore, DayBefore>>}

InitAnalytics ==
    /\ InitCommon
    /\ InitSignedIn
    /\ \E n \in 0..MaxTrackingRows :
          time_tracking \in {[i \in 1..n |-> WithId(f[i], i)] :
                                f \in [1..n -> TrackingEntries]}
    /\ phase = "api"
    /\ cols = FullCols
    /\ calendar_events = <<>>

NextAnalytics ==
    \E c \in Couples, r \in AnalyticsRanges : TimeAnalytics(c, r[1], r[2])

SpecAnalytics == InitAnalytics /\ [][NextAnalytics]_vars

\* The repository functions called directly, in any order, on a store of
\* any older shape.
InitStore ==
    /\ InitCommon
    /\ time_tracking = <<>>
    /\ InitSignedIn
    /\ cols \in LegacyShapes
    /\ calendar_events = <<>>
    /\ phase = "api"

NextStore ==
    \/ ensure_calendar_schema
    \/ /\ Len(calendar_events) < MaxStoreEvents
       /\ \E c \in Couples, s \in {NULL, TimeStr(9, 0)}, t \in Titles :
             add_calendar_event(c, Txt("both"), RangeEnd, s, NULL, t)
    \/ add_calendar_event_duration
    \/ add_calendar_event_commit
    \/ \E c \in Couples : get_calendar_events(c, NULL, NULL)

SpecStore == InitStore /\ [][NextStore]_vars

\* The migration on every shape of the table: any subset of the target
\* columns present, with rows written before and after it.
InitSchema ==
    /\ InitCommon
    /\ time_tracking = <<>>
    /\ InitSignedIn
    /\ cols \in {BaseCols \cup x : x \in SUBSET TargetCols}
    /\ calendar_events \in {<<>>} \cup {<<r>> : r \in LegacyRows(cols)}
    /\ phase = "api"

NextSchema ==
    \/ ensure_calendar_schema
    \/ /\ Len(calendar_events) < MaxSchemaEvents
       /\ \E s \in {NULL, TimeStr(9, 0)} :
             add_calendar_event(Txt("c1"), Txt("both"), RangeEnd, s, NULL,
                                Txt("Dinner"))
    \/ add_calendar_event_duration
    \/ add_calendar_event_commit

SpecSchema == InitSchema /\ [][NextSchema]_vars

\* The query on stores with and without the two time columns, over events
\* of several dates and start times.
InitQuery ==
    /\ InitCommon
    /\ time_tracking = <<>>
    /\ InitSignedIn
    /\ cols \in QueryShapes
    /\ calendar_events = <<>>
    /\ phase = "api"

NextQuery ==
    \/ ensure_calendar_schema
    \/ /\ Len(calendar_events) < MaxQueryEvents
       /\ \E c \in Couples, d \in Dates, s \in StartTimes :
             add_calendar_event(c, Txt("both"), d, s, NULL, Txt("Dinner"))
    \/ add_calendar_event_duration
    \/ add_calendar_event_commit
    \/ \E c \in Couples, r \in Ranges : get_calendar_events(c, r[1], r[2])

SpecQuery == InitQuery /\ [][NextQuery]_vars

\* The renderer alone, for every month of the modelled years.
InitRender ==
    /\ InitCommon
    /\ time_tracking = <<>>
    /\ InitSignedIn
    /\ phase = "api"
    /\ cols = FullCols
    /\ calendar_events = <<>>

NextRender ==
    \/ \E now \in Todays : generate_calendar_view(now)
    \/ ClearView
    \/ /\ grid = <<>>
       /\ \E y \in Years, m \in 1..12 : year' = y /\ month' = m
       /\ UNCHANGED <<storeVars, phase, callVars, histVars, queryVars,
                      restVars, today, grid>>

SpecRender == InitRender /\ [][NextRender]_vars

\* The renderer's event boxes: the page hands the renderer a frame of up
\* to MaxDayEvents events, each on one of two days of January or on a day
\* of February, and draws either month.
CellDates ==
    {DateStr(FirstYear, 1, 1), DateStr(FirstYear, 1, 15),
     DateStr(FirstYear, 2, 1)}

LongTitle ==
    <<"A", "n", "n", "i", "v", "e", "r", "s", "a", "r", "y", " ",
      "d", "i", "n", "n", "e", "r", " ", "o", "u", "t">>

EventRow(i, d) ==
    [id |-> i, couple_id |-> Txt("c1"), date |-> d,
     title |-> IF i % 5 = 0 THEN LongTitle ELSE <<"e", DigitChar(i % 10)>>,
     start_time |-> IF i % 2 = 0 THEN NULL ELSE TimeStr(8 + i, 30),
     color |-> IF i % 3 = 0 THEN NULL
               ELSE IF i % 3 = 1 THEN Txt("red") ELSE Txt("green")]

EventFrames ==
    UNION {{[i \in 1..n |-> EventRow(i, ds[i])] : ds \in [1..n -> CellDates]}
           : n \in 0..MaxDayEvents}

NextCells ==
    \/ \E now \in Todays : generate_calendar_view(now)
    \/ ClearView
    \/ /\ grid = <<>>
       /\ \E m \in 1..2 : year' = FirstYear /\ month' = m
       /\ UNCHANGED <<storeVars, phase, callVars, histVars, queryVars,
                      restVars, today, grid>>
    \/ /\ grid = <<>>
       /\ result = <<>>
       /\ \E events_df \in EventFrames : result' = events_df
       /\ UNCHANGED <<storeVars, phase, callVars, histVars, query,
                      restVars, renderVars>>

SpecCells == InitRender /\ [][NextCells]_vars

\* The calendar page's month navigation, MaxNavYears years either side of
\* the first year.
NextNav ==
    \/ Prev
    \/ NextClick
    \/ \E now \in Todays : Today(now)

SpecNav == InitRender /\ [][NextNav]_vars

(***************************************************************************)
(* Reference notions used by the properties                                *)
(***************************************************************************)
\* A zero-padded same-day HH:MM time, and its minute of the day.
WellFormedHM(s) ==
    /\ s # NULL
    /\ Len(s) = 5
    /\ s[3] = ":"
    /\ IsDigit(s[1]) /\ IsDigit(s[2]) /\ IsDigit(s[4]) /\ IsDigit(s[5])
    /\ 10 * DigitVal(s[1]) + DigitVal(s[2]) <= 23
    /\ 10 * DigitVal(s[4]) + DigitVal(s[5]) <= 59
MinuteOfDay(s) ==
    600 * DigitVal(s[1]) + 60 * DigitVal(s[2]) + 10 * DigitVal(s[4])
    + DigitVal(s[5])

\* A time string that is no same-day time at all.
Malformed(s) == s # NULL /\ s # Empty /\ ParseHM(s) = ParseError

\* An ISO date as the number yyyymmdd.
DateNum(s) ==
    10000 * Number(SubSeq(s, 1, 4)) + 100 * Number(SubSeq(s, 6, 7))
    + Number(SubSeq(s, 9, 10))

\* The shape with no optional column beyond color and description.
MinimalCols == BaseCols \cup {"color", "description"}

\* The ids of the rows of a sequence of rows.
IdsOf(rows) == {rows[i]["id"] : i \in 1..Len(rows)}

\* The rows in result are those the last get_calendar_events returned.
GetEnded == query.outcome = "returned"

\* A call of add_calendar_event ended by returning or by raising.
AddEnded == lastAdd.outcome \in {"returned", "raised"}

(***************************************************************************)
(* C1: two or more calls of ensure_calendar_schema in succession raise no  *)
(* error, and every call after the first leaves the column set and every   *)
(* row unchanged.                                                          *)
(***************************************************************************)
C1_EnsureIdempotent ==
    /\ [](~schemaErr)
    /\ [][(lastOp \in {"ensure", "ensure again"} /\ lastOp' = "ensure again")
            => (cols' = cols /\ calendar_events' = calendar_events)]_vars

\* Reached: a second call in succession, on a migrated older table that
\* holds a backfilled row.
C1_Witness ==
    /\ lastOp = "ensure again"
    /\ cols = FullCols
    /\ Len(calendar_events) = 2
    /\ calendar_events[1]["start_time"] = TimeStr(10, 30)
    /\ calendar_events[1]["timezone"] = Txt("Asia/Tokyo")
    /\ calendar_events[2]["start_time"] = TimeStr(9, 0)
    /\ calendar_events[2]["category"] = NULL

(***************************************************************************)
(* C2: on a store with none of the optional columns, add_calendar_event    *)
(* succeeds, and a following get_calendar_events for that household        *)
(* returns exactly one row, carrying the supplied date and title (the      *)
(* household holding no earlier event).                                    *)
(***************************************************************************)
C2_MinimalStoreRoundTrip ==
    (/\ GetEnded
     /\ cols = MinimalCols
     /\ AddEnded
     /\ lastAdd.couple_id = query.couple_id
     /\ \A i \in 1..Len(calendar_events) :
           calendar_events[i]["couple_id"] = query.couple_id
              => calendar_events[i]["id"] = lastAdd.id)
    => /\ lastAdd.outcome = "returned"
       /\ Len(result) = 1
       /\ result[1]["date"] = lastAdd.date_str
       /\ result[1]["title"] = lastAdd.title

C2_Witness ==
    /\ GetEnded
    /\ cols = MinimalCols
    /\ AddEnded
    /\ lastAdd.couple_id = query.couple_id
    /\ lastAdd.title = Txt("Gym")
    /\ Len(calendar_events) = 2
    /\ calendar_events[1]["couple_id"] # query.couple_id
    /\ Len(result) = 1

(***************************************************************************)
(* C3: whatever the live column set, the INSERT of add_calendar_event      *)
(* names only columns of that set, so that event creation never fails on   *)
(* a missing column.                                                       *)
(***************************************************************************)
C3_InsertNamesOnlyLiveColumns ==
    AddEnded =>
        /\ columns(lastAdd.existing_columns) \subseteq lastAdd.existing_columns
        /\ lastAdd.outcome = "returned"

(***************************************************************************)
(* C4: after add_calendar_event returns for assigned_to = "both" with      *)
(* well-formed same-day start < end on a store with the start_time column, *)
(* time_tracking holds exactly two new rows, one per partner, each with    *)
(* the full end - start duration.                                          *)
(***************************************************************************)
C4_BothYieldsTwoEntries ==
    (/\ lastAdd.outcome = "returned"
     /\ lastAdd.assigned_to = Txt("both")
     /\ WellFormedHM(lastAdd.start_time) /\ WellFormedHM(lastAdd.end_time)
     /\ MinuteOfDay(lastAdd.start_time) < MinuteOfDay(lastAdd.end_time)
     /\ "start_time" \in lastAdd.existing_columns)
    => /\ Len(time_tracking) >= lastAdd.trackBase + 2
       /\ time_tracking[lastAdd.trackBase + 1]["partner_name"] = partner1_name
       /\ time_tracking[lastAdd.trackBase + 2]["partner_name"] = partner2_name
       /\ \A k \in 1..2 :
             time_tracking[lastAdd.trackBase + k]["duration_minutes"]
                = MinuteOfDay(lastAdd.end_time) - MinuteOfDay(lastAdd.start_time)

(***************************************************************************)
(* C5: for well-formed HH:MM start and end times on one date, the duration *)
(* add_calendar_event computes is the exact number of minutes end - start  *)
(* when end > start, and 0 when end <= start.                              *)
(***************************************************************************)
C5_DurationExactOrZero ==
    (/\ pc = "tracking"
     /\ TrackingGuard(call, call.existing_columns)
     /\ WellFormedHM(call.start_time) /\ WellFormedHM(call.end_time))
    => call.duration =
          IF MinuteOfDay(call.end_time) > MinuteOfDay(call.start_time)
          THEN MinuteOfDay(call.end_time) - MinuteOfDay(call.start_time)
          ELSE 0

\* Reached: an end time earlier than the start time, and duration 0.
C5_Witness ==
    /\ pc = "tracking"
    /\ call.start_time = TimeStr(23, 59)
    /\ call.end_time = TimeStr(9, 1)
    /\ call.duration = 0

C7_MalformedTimeStillStores ==
    (/\ AddEnded
     /\ Malformed(lastAdd.start_time) \/ Malformed(lastAdd.end_time))
    => /\ lastAdd.outcome = "returned"
       /\ Len(calendar_events) = lastAdd.id
       /\ calendar_events[lastAdd.id]["id"] = lastAdd.id
       /\ calendar_events[lastAdd.id]["title"] = lastAdd.title
       /\ Len(time_tracking) = lastAdd.trackBase

\* Reached: a returned call with a well-formed start and a malformed end.
C7_Witness ==
    /\ lastAdd.outcome = "returned"
    /\ lastAdd.start_time = TimeStr(9, 0)
    /\ lastAdd.end_time = BadTime
    /\ Len(calendar_events) = 2

(***************************************************************************)
(* C8: with a date range given, get_calendar_events returns exactly the    *)
(* household's events with startDate <= date <= endDate, both ends         *)
(* inclusive; with no range it returns all of the household's events.      *)
(***************************************************************************)
InRange(d, lo, hi) == DateNum(lo) <= DateNum(d) /\ DateNum(d) <= DateNum(hi)

C8_RangeInclusive ==
    GetEnded =>
        /\ Cardinality(IdsOf(result)) = Len(result)
        /\ IdsOf(result) =
              {calendar_events[i]["id"] : i \in
                 {k \in 1..Len(calendar_events) :
                    /\ calendar_events[k]["couple_id"] = query.couple_id
                    /\ (query.start_date # NULL /\ query.end_date # NULL)
                       => InRange(calendar_events[k]["date"],
                                  query.start_date, query.end_date)}}

\* Reached: the one-day range [2025-01-09, 2025-01-09] over an event of that
\* day and a later one of the same household returns the first alone.
C8_Witness ==
    /\ GetEnded
    /\ query.start_date = DayBefore /\ query.end_date = DayBefore
    /\ Len(calendar_events) = 2
    /\ calendar_events[1]["couple_id"] = query.couple_id
    /\ calendar_events[2]["couple_id"] = query.couple_id
    /\ calendar_events[1]["date"] = DayBefore
    /\ calendar_events[2]["date"] = RangeEnd
    /\ IdsOf(result) = {1}

(***************************************************************************)
(* C9: get_calendar_events returns rows by date ascending and, within one  *)
(* date, by resolved time ascending: start_time when the column exists and *)
(* holds a value, else the legacy time when that column exists and holds a *)
(* value, else the empty string.                                           *)
(***************************************************************************)
ResolvedTime(r) ==
    IF "start_time" \in cols /\ r["start_time"] # NULL THEN r["start_time"]
    ELSE IF "time" \in cols /\ r["time"] # NULL THEN r["time"]
    ELSE Empty
TimeRank(s) == IF s = Empty THEN -1 ELSE MinuteOfDay(s)

C9_OrderedByDateThenTime ==
    GetEnded =>
        \A i, j \in 1..Len(result) :
            i < j =>
               \/ DateNum(result[i]["date"]) < DateNum(result[j]["date"])
               \/ /\ result[i]["date"] = result[j]["date"]
                  /\ TimeRank(ResolvedTime(result[i]))
                        <= TimeRank(ResolvedTime(result[j]))

\* Reached: two rows of one date ordered by the legacy time column alone,
\* against their order of insertion.
C9_Witness ==
    /\ GetEnded
    /\ "start_time" \notin cols /\ "time" \in cols
    /\ Len(result) = 2
    /\ result[1]["date"] = result[2]["date"]
    /\ result[1]["id"] = 2
    /\ result[1]["time"] = TimeStr(9, 0)
    /\ result[2]["time"] = TimeStr(10, 30)

(***************************************************************************)
(* C10: for every year and month the grid of generate_calendar_view has    *)
(* exactly daysInMonth(year, month) non-empty day cells, numbered          *)
(* 1..daysInMonth in order, and its cells total a multiple of 7.           *)
(***************************************************************************)
DaysInMonthRef(y, m) ==
    IF m \in {4, 6, 9, 11} THEN 30
    ELSE IF m # 2 THEN 31
    ELSE IF y % 400 = 0 \/ (y % 4 = 0 /\ y % 100 # 0) THEN 29
    ELSE 28

DayCellsUpTo(i) == Cardinality({k \in 1..i : grid[k].day # 0})

C10_GridShape ==
    grid # <<>> =>
        /\ DayCellsUpTo(Len(grid)) = DaysInMonthRef(year, month)
        /\ \A i \in 1..Len(grid) :
              grid[i].day # 0 => grid[i].day = DayCellsUpTo(i)
        /\ Len(grid) % 7 = 0

\* Reached: a leap February with blank cells before and after its 29 days.
C10_Witness ==
    /\ grid # <<>>
    /\ month = 2
    /\ DayCellsUpTo(Len(grid)) = 29
    /\ grid[1].day = 0
    /\ grid[Len(grid)].day = 0

(***************************************************************************)
(* C11: generate_calendar_view is a function of its arguments: two calls   *)
(* with equal (year, month, events) give identical output whenever they    *)
(* are made, and a call modifies no stored entity.                         *)
(***************************************************************************)
C11_ViewDeterministic ==
    [][(grid # <<>> /\ grid' # <<>> /\ year' = year /\ month' = month)
          => (grid' = grid /\ UNCHANGED <<storeVars, ledgerVars>>)]_vars

(***************************************************************************)
(* C12: for a household and a year y the monthly trend has exactly 12 rows *)
(* for months 1..12 in order; income(m) is the sum of the household's      *)
(* income amounts with year y and month m (0 when none), expenses(m)       *)
(* likewise, net(m) = income(m) - expenses(m); rows of other years or      *)
(* households contribute nothing.                                          *)
(***************************************************************************)
RECURSIVE SumOver(_, _, _, _, _)
SumOver(rows, n, c, y, m) ==
    IF n = 0 THEN 0
    ELSE SumOver(rows, n - 1, c, y, m)
         + (IF rows[n].couple_id = c /\ rows[n].year = y /\ rows[n].month = m
            THEN rows[n].amount ELSE 0)

TrendsEnded ==
    answer.outcome = "returned" /\ answer.op = "create_monthly_trends_chart"

C12_MonthlyTrend ==
    TrendsEnded =>
        /\ DOMAIN answer.value = 1..12
        /\ \A m \in 1..12 :
              LET row == answer.value[m]
                  inc == SumOver(income, Len(income), answer.args.couple_id,
                                 answer.args.year, m)
                  exp == SumOver(expenses, Len(expenses),
                                 answer.args.couple_id, answer.args.year, m)
              IN  /\ row.month = m
                  /\ row.income = inc
                  /\ row.expenses = exp
                  /\ row.net = inc - exp

\* Reached: household c1, year 2025: two January incomes and a March
\* expense, beside nothing else; February is zero-filled.
C12_Witness ==
    /\ TrendsEnded
    /\ answer.args = [couple_id |-> Txt("c1"), year |-> 2025]
    /\ answer.value[1].income = 2000
    /\ answer.value[2].income = 0 /\ answer.value[2].net = 0
    /\ answer.value[3].expenses = 500 /\ answer.value[3].net = -500

(***************************************************************************)
(* C13: in every reachable state each time_tracking row was written by an  *)
(* add_calendar_event call that had both a start and an end time and has   *)
(* duration_minutes > 0; no operation updates or deletes a time_tracking   *)
(* row.  A row is written only by the add_time_tracking calls of a running *)
(* add_calendar_event, so the first part is stated of those calls.         *)
(***************************************************************************)
TrackingDue == pc = "tracking" /\ call.todo # <<>>

TimesPresent(c) ==
    /\ c.start_time # NULL /\ c.start_time # Empty
    /\ c.end_time # NULL /\ c.end_time # Empty

C13_TrackingOnlyFromTimedEvents ==
    /\ [](TrackingDue => (TimesPresent(call) /\ call.duration > 0))
    /\ [](\A i \in 1..Len(time_tracking) :
             time_tracking[i]["duration_minutes"] > 0)
    /\ [][/\ Len(time_tracking') >= Len(time_tracking)
          /\ \A i \in 1..Len(time_tracking) :
                time_tracking'[i] = time_tracking[i]
          /\ time_tracking' # time_tracking
                => /\ TrackingDue
                   /\ Len(time_tracking') = Len(time_tracking) + 1
                   /\ time_tracking'[Len(time_tracking')]["duration_minutes"]
                        = call.duration]_vars

\* Reached: a call with 09:00 to 10:30 for both partners is about to call
\* add_time_tracking for the first of them, with 90 minutes.
C13_Witness ==
    /\ TrackingDue
    /\ call.todo = <<partner1_name, partner2_name>>
    /\ call.start_time = TimeStr(9, 0)
    /\ call.end_time = TimeStr(10, 30)
    /\ call.duration = 90

(***************************************************************************)
(* C14: calendar events are append-only: an event row once stored is never *)
(* deleted and none of its stored field values ever changes, whatever      *)
(* operations follow (ensure_calendar_schema at every start included).     *)
(***************************************************************************)
C14_EventsAppendOnly ==
    [][/\ Len(calendar_events') >= Len(calendar_events)
       /\ \A i \in 1..Len(calendar_events) :
             calendar_events'[i] = calendar_events[i]]_vars

(***************************************************************************)
(* C15: create_couple_account with an email an existing account already    *)
(* has returns no household id together with the duplicate-address error,  *)
(* inserts nothing and leaves every account unchanged; in every reachable  *)
(* state no two accounts share an email.                                   *)
(***************************************************************************)
CreateEnded ==
    answer.outcome = "returned" /\ answer.op = "create_couple_account"

C15_DuplicateEmailRejected ==
    /\ [](\A i, j \in 1..Len(couple_accounts) :
             couple_accounts[i].email = couple_accounts[j].email => i = j)
    /\ [][(CreateEnded'
           /\ \E i \in 1..Len(couple_accounts) :
                 couple_accounts[i].email = answer'.args.email)
          => /\ answer'.value.couple_id = NULL
             /\ answer'.value.error = Txt("Email already exists")
             /\ couple_accounts' = couple_accounts]_vars

\* Reached: with one account stored, a signup with its email and another
\* password came back with the error.
C15_Witness ==
    /\ CreateEnded
    /\ answer.value.couple_id = NULL
    /\ Len(couple_accounts) = 1
    /\ couple_accounts[1].email = answer.args.email
    /\ couple_accounts[1].password_hash # hash_password(answer.args.password)

(***************************************************************************)
(* C16: verify_couple_login returns a household's identity if and only if  *)
(* an account exists whose email equals the given address and whose stored *)
(* digest equals the digest of the given secret; otherwise it returns none *)
(* and the session's authenticated flag stays false.                       *)
(***************************************************************************)
LoginEnded ==
    answer.outcome = "returned" /\ answer.op = "verify_couple_login"

AccountMatches(i) ==
    /\ couple_accounts[i].email = answer.args.email
    /\ couple_accounts[i].password_hash = hash_password(answer.args.password)

C16_LoginIffCredentialsMatch ==
    /\ (answer.outcome = "returned" /\ answer.op = "login")
          => ~authenticated
    /\ LoginEnded =>
          IF \E i \in 1..Len(couple_accounts) : AccountMatches(i)
          THEN \E i \in 1..Len(couple_accounts) :
                  /\ AccountMatches(i)
                  /\ answer.value.couple_id = couple_accounts[i].couple_id
                  /\ answer.value.couple_name = couple_accounts[i].couple_name
                  /\ authenticated
          ELSE answer.value = NoIdentity /\ ~authenticated

\* Reached: two accounts stored; a login with the first one's email and
\* the second one's password came back with none.
C16_Witness ==
    /\ LoginEnded
    /\ Len(couple_accounts) = 2
    /\ couple_accounts[1].email = answer.args.email
    /\ couple_accounts[2].password_hash = hash_password(answer.args.password)
    /\ couple_accounts[1].password_hash # couple_accounts[2].password_hash
    /\ answer.value = NoIdentity
    /\ ~authenticated

(***************************************************************************)
(* C17: for a household with n >= 1 savings goals and total lifetime       *)
(* savings S, every per-goal progress value reported, in the savings-goals *)
(* chart and by get_savings_progress in the goal details, equals S / n, so *)
(* the reported per-goal values add up to S.                               *)
(***************************************************************************)
GoalsEnded == answer.outcome = "returned" /\ answer.op = "goals"

RECURSIVE SumOfCouple(_, _, _)
SumOfCouple(rows, n, c) ==
    IF n = 0 THEN 0
    ELSE SumOfCouple(rows, n - 1, c)
         + (IF rows[n].couple_id = c THEN rows[n].amount ELSE 0)

TotalSaved(c) == SumOfCouple(savings, Len(savings), c)

\* q = S / n
IsShare(q, S, n) == q.num * n = S * q.den

C17_ProgressIsEqualShare ==
    GoalsEnded =>
        LET n == Len(answer.value.details)
            S == TotalSaved(answer.args.couple_id)
        IN  /\ Len(answer.value.chart) = n
            /\ \A i \in 1..n :
                  /\ IsShare(answer.value.chart[i].current, S, n)
                  /\ IsShare(answer.value.details[i].progress, S, n)

(***************************************************************************)
(* C18: after any writes by any households, every read called for          *)
(* household A (get_calendar_events, get_monthly_data,                     *)
(* get_all_couple_data, get_todos, get_savings_goals, get_time_analytics)  *)
(* returns only rows whose household identifier is A.                      *)
(***************************************************************************)
RowReads ==
    {"get_monthly_data", "get_all_couple_data", "get_todos",
     "get_savings_goals"}

\* The minutes tracked for a household, partner and category on the dates
\* from lo to hi, both included, among the first n time_tracking rows.
RECURSIVE MinutesOf(_, _, _, _, _, _)
MinutesOf(n, c, lo, hi, partner, category) ==
    IF n = 0 THEN 0
    ELSE MinutesOf(n - 1, c, lo, hi, partner, category)
         + (IF /\ time_tracking[n].couple_id = c
               /\ InRange(time_tracking[n].date, lo, hi)
               /\ time_tracking[n].partner_name = partner
               /\ time_tracking[n].category = category
            THEN time_tracking[n].duration_minutes ELSE 0)

C18_ReadsAreHouseholdScoped ==
    /\ GetEnded =>
          \A i \in 1..Len(result) : result[i]["couple_id"] = query.couple_id
    /\ (answer.outcome = "returned" /\ answer.op \in RowReads) =>
          \A i \in 1..Len(answer.value) :
             answer.value[i].couple_id = answer.args.couple_id
    /\ (answer.outcome = "returned" /\ answer.op = "get_time_analytics") =>
          \A g \in answer.value :
             /\ g.total_minutes > 0
             /\ g.total_minutes =
                   MinutesOf(Len(time_tracking), answer.args.couple_id,
                             answer.args.start_date, answer.args.end_date,
                             g.partner_name, g.category)

\* Reached: both households have a todo, and get_todos for the second
\* writer returned its one row.
C18_Witness ==
    /\ answer.outcome = "returned" /\ answer.op = "get_todos"
    /\ Len(todos) = 2
    /\ todos[1].couple_id # todos[2].couple_id
    /\ answer.args.couple_id = todos[2].couple_id
    /\ Len(answer.value) = 1
    /\ answer.value[1].id = 2

(***************************************************************************)
(* C19: add_calendar_event returns to its caller the identifier of the     *)
(* event row it has just stored, and the identifiers returned by distinct  *)
(* successful calls are distinct.                                          *)
(***************************************************************************)
C19_ReturnsEventId ==
    lastAdd.outcome = "returned" =>
        /\ lastAdd.value # NULL
        /\ lastAdd.value = lastAdd.id
        /\ \E i \in 1..Len(calendar_events) :
              calendar_events[i]["id"] = lastAdd.value

(***************************************************************************)
(* C20: for a household and a date range the time analytics return, for    *)
(* each (partner, category) pair, the sum of duration_minutes of the       *)
(* household's entries dated within the range, both ends included; the     *)
(* category rollup of each category equals the sum of that category's      *)
(* grouped totals over all partners; an empty result is returned as no     *)
(* data, not as an error.                                                  *)
(***************************************************************************)
AnalyticsEnded ==
    answer.outcome = "returned" /\ answer.op = "create_time_analytics_charts"

\* Entry n counts for the household and range of the last analytics call.
Counted(n) ==
    /\ time_tracking[n].couple_id = answer.args.couple_id
    /\ InRange(time_tracking[n].date, answer.args.start_date,
               answer.args.end_date)

RECURSIVE CategoryMinutes(_, _)
CategoryMinutes(n, category) ==
    IF n = 0 THEN 0
    ELSE CategoryMinutes(n - 1, category)
         + (IF Counted(n) /\ time_tracking[n].category = category
            THEN time_tracking[n].duration_minutes ELSE 0)

C20_TimeAnalyticsTotals ==
    AnalyticsEnded =>
        LET N == Len(time_tracking)
            v == answer.value
        IN  /\ v.empty <=> ~ \E n \in 1..N : Counted(n)
            /\ \A n \in 1..N : Counted(n) =>
                  \E g \in v.data :
                     /\ g.partner_name = time_tracking[n].partner_name
                     /\ g.category = time_tracking[n].category
            /\ \A g \in v.data :
                  /\ \E n \in 1..N :
                        /\ Counted(n)
                        /\ g.partner_name = time_tracking[n].partner_name
                        /\ g.category = time_tracking[n].category
                  /\ g.total_minutes =
                        MinutesOf(N, answer.args.couple_id,
                                  answer.args.start_date,
                                  answer.args.end_date,
                                  g.partner_name, g.category)
                  /\ \A h \in v.data :
                        (h.partner_name = g.partner_name
                         /\ h.category = g.category) => h = g
            /\ ~v.empty =>
                  /\ {t.category : t \in v.category_chart}
                        = {g.category : g \in v.data}
                  /\ \A t \in v.category_chart :
                        /\ t.total_hours.den = 60
                        /\ t.total_hours.num = CategoryMinutes(N, t.category)
                        /\ \A u \in v.category_chart :
                              u.category = t.category => u = t
                  /\ \A b \in v.partner_chart :
                        b.total_hours = [num |-> b.total_minutes, den |-> 60]

\* Reached: household c1 over [2025-01-10, 2025-01-20] with a work entry
\* of each partner at either end of the range: two groups of 90 minutes
\* and a rollup of 180 / 60 hours.
C20_Witness ==
    /\ AnalyticsEnded
    /\ answer.args = [couple_id |-> Txt("c1"), start_date |-> RangeStart,
                      end_date |-> RangeEnd]
    /\ Len(time_tracking) = 2
    /\ time_tracking[1].date = RangeStart
    /\ time_tracking[2].date = RangeEnd
    /\ Cardinality(answer.value.data) = 2
    /\ \A g \in answer.value.data : g.total_minutes = 90
    /\ answer.value.category_chart =
          {[category |-> Txt("work"), total_hours |-> [num |-> 180, den |-> 60]]}

(***************************************************************************)
(* C21: after ensure_calendar_schema completes on a table of any older,    *)
(* narrower shape, the column set contains all twelve target columns,      *)
(* every column that existed before still exists, no row has been removed, *)
(* and no pre-existing value other than a backfilled start_time has        *)
(* changed.                                                                *)
(***************************************************************************)
TwelveTargetColumns ==
    {"time", "start_time", "end_time", "timezone", "assigned_to",
     "created_by", "category", "color", "description", "recurrence",
     "created_at", "partner_name"}

\* The step ends with ensure_calendar_schema as the last operation ended:
\* the call itself, or a step of a call that has not ended yet.
EnsureCompletes == lastOp' \in {"ensure", "ensure again"} /\ ~schemaErr'

Backfillable(r) ==
    "start_time" \in DOMAIN r
    /\ (r["start_time"] = NULL \/ r["start_time"] = Empty)

C21_EnsureAddsAndKeeps ==
    [][EnsureCompletes =>
          /\ TwelveTargetColumns \subseteq cols'
          /\ cols \subseteq cols'
          /\ Len(calendar_events') = Len(calendar_events)
          /\ \A i \in 1..Len(calendar_events) : \A c \in cols :
                (c = "start_time" /\ Backfillable(calendar_events[i]))
                \/ calendar_events'[i][c] = calendar_events[i][c]]_vars

\* Reached: a row written under a shape without start_time and timezone
\* has both after the call, its other values as before.
C21_Witness ==
    /\ lastOp = "ensure"
    /\ cols = BaseCols \cup TwelveTargetColumns
    /\ Len(calendar_events) = 1
    /\ calendar_events[1]["title"] = Txt("Gym")
    /\ calendar_events[1]["time"] = TimeStr(10, 30)
    /\ calendar_events[1]["start_time"] = TimeStr(10, 30)
    /\ calendar_events[1]["timezone"] = Txt("Asia/Tokyo")
    /\ calendar_events[1]["recurrence"] = Txt("none")

(***************************************************************************)
(* C22: after ensure_calendar_schema completes, every row whose start_time *)
(* was missing (NULL) or the empty string and whose legacy time column     *)
(* holds a non-empty value has start_time equal to that time value; rows   *)
(* whose start_time was already non-empty keep it.                         *)
(***************************************************************************)
HasLegacyTime(r) ==
    "time" \in DOMAIN r /\ r["time"] # NULL /\ r["time"] # Empty

C22_BackfillFromLegacyTime ==
    [][EnsureCompletes =>
          \A i \in 1..Len(calendar_events) :
             LET before == calendar_events[i]
                 after == calendar_events'[i]
             IN  /\ (HasLegacyTime(before)
                     /\ ("start_time" \in DOMAIN before => Backfillable(before)))
                       => after["start_time"] = before["time"]
                 /\ ("start_time" \in DOMAIN before /\ ~Backfillable(before))
                       => after["start_time"] = before["start_time"]]_vars

(***************************************************************************)
(* C23: after add_calendar_event returns for assigned_to = "partner1"      *)
(* (resp. "partner2") with well-formed same-day start < end on a store     *)
(* with the start_time column, time_tracking holds exactly one new row,    *)
(* with that partner's name and the full duration; when either time is     *)
(* absent, the start_time column does not exist, or end <= start, it holds *)
(* no new row.                                                             *)
(***************************************************************************)
Absent(s) == s = NULL \/ s = Empty

AssignedPartner(a) ==
    IF a.assigned_to = Txt("partner1") THEN partner1_name ELSE partner2_name

C23_SinglePartnerYieldsOneEntry ==
    (/\ lastAdd.outcome = "returned"
     /\ lastAdd.assigned_to \in {Txt("partner1"), Txt("partner2")})
    => /\ (/\ WellFormedHM(lastAdd.start_time)
           /\ WellFormedHM(lastAdd.end_time)
           /\ MinuteOfDay(lastAdd.start_time) < MinuteOfDay(lastAdd.end_time)
           /\ "start_time" \in lastAdd.existing_columns)
          => /\ Len(time_tracking) = lastAdd.trackBase + 1
             /\ time_tracking[lastAdd.trackBase + 1]["partner_name"]
                  = AssignedPartner(lastAdd)
             /\ time_tracking[lastAdd.trackBase + 1]["duration_minutes"]
                  = MinuteOfDay(lastAdd.end_time)
                      - MinuteOfDay(lastAdd.start_time)
       /\ (\/ Absent(lastAdd.start_time)
           \/ Absent(lastAdd.end_time)
           \/ "start_time" \notin lastAdd.existing_columns
           \/ (/\ WellFormedHM(lastAdd.start_time)
               /\ WellFormedHM(lastAdd.end_time)
               /\ MinuteOfDay(lastAdd.end_time)
                    <= MinuteOfDay(lastAdd.start_time)))
          => Len(time_tracking) = lastAdd.trackBase

(***************************************************************************)
(* C25: add_calendar_event never calls add_time_tracking, which writes on  *)
(* a connection of its own, while its first connection holds the           *)
(* uncommitted event insert; no tracking write is rejected because of the  *)
(* event insert of the same call.                                          *)
(***************************************************************************)
C25_NoWriteWhileInsertPending ==
    TrackingDue => ~WriteLocked

(***************************************************************************)
(* C24: for every in-month day with k events in the input,                 *)
(* generate_calendar_view renders the first min(k, 3) of them in input     *)
(* order and a "+N more" line exactly when k > 3, with N = k - 3; events   *)
(* of other days never appear in the day's cell.                           *)
(***************************************************************************)
EventsOn(d) == {i \in 1..Len(result) : result[i].date = d}

\* The j-th event of date d in input order.
NthOn(d, j) ==
    result[CHOOSE i \in EventsOn(d) :
              Cardinality({h \in EventsOn(d) : h <= i}) = j]

C24_FirstThreeAndMore ==
    grid # <<>> =>
        \A i \in 1..Len(grid) :
           grid[i].day # 0 =>
              LET d == DateStr(year, month, grid[i].day)
                  k == Cardinality(EventsOn(d))
                  shown == IF k < 3 THEN k ELSE 3
              IN  /\ Len(grid[i].events) = shown
                  /\ \A j \in 1..shown :
                        grid[i].events[j] = EventBox(NthOn(d, j))
                  /\ grid[i].more = (IF k > 3 THEN <<k - 3>> ELSE <<>>)

\* Reached: January drawn with four events on the 1st and one on the
\* 15th: three boxes and "+1 more" on the 1st, one box on the 15th, no box
\* anywhere else.
C24_Witness ==
    /\ grid # <<>>
    /\ month = 1
    /\ Len(result) = 5
    /\ Cardinality(EventsOn(DateStr(FirstYear, 1, 1))) = 4
    /\ result[5].date = DateStr(FirstYear, 1, 15)
    /\ \A i \in 1..Len(grid) :
          /\ grid[i].day = 1
                => /\ Len(grid[i].events) = 3
                   /\ grid[i].events[1].title = <<"e", "1">>
                   /\ grid[i].more = <<1>>
          /\ grid[i].day = 15
                => /\ Len(grid[i].events) = 1
                   /\ grid[i].events[1].title = Clip(LongTitle, 15)
                   /\ grid[i].more = <<>>
          /\ grid[i].day \notin {0, 1, 15} => grid[i].events = <<>>

(***************************************************************************)
(* C27: every income, expense or savings row stored through the money page *)
(* has month and year fields equal to the month and year of its own date,  *)
(* so get_monthly_data(kind, household, m, y) returns exactly the          *)
(* household's rows dated in month m of year y, whatever month and year    *)
(* were selected when the row was added.                                   *)
(***************************************************************************)
YearOfDate(d) == Number(SubSeq(d, 1, 4))
MonthOfDate(d) == Number(SubSeq(d, 6, 7))

DatedIn(rows, c, m, y) ==
    SelectSeq(rows, LAMBDA r : /\ r.couple_id = c
                               /\ MonthOfDate(r.date) = m
                               /\ YearOfDate(r.date) = y)

C27_MonthYearFollowDate ==
    \A rows \in {income, expenses, savings} :
       /\ \A i \in 1..Len(rows) :
             /\ rows[i].month = MonthOfDate(rows[i].date)
             /\ rows[i].year = YearOfDate(rows[i].date)
       /\ \A c \in Couples, m \in 1..12, y \in LedgerYears :
             get_monthly_data(rows, c, m, y) = DatedIn(rows, c, m, y)

(***************************************************************************)
(* C26: a time-tracking entry derived from an event is attributed to       *)
(* partner two only when the event's assigned_to is partner2 or both, and  *)
(* to partner one only when it is partner1 or both; an event with any      *)
(* other label never produces an entry for a partner.  An entry is         *)
(* produced only by the add_time_tracking calls of a running               *)
(* add_calendar_event, so the claim is stated of those calls.              *)
(***************************************************************************)
AttributedTo(partner) ==
    TrackingDue /\ \E k \in 1..Len(call.todo) : call.todo[k] = partner

C28_MonthNavigation ==
    /\ calendar_month \in 1..12
    /\ (lastNav # <<>> /\ lastNav[1].op = "Next" /\ lastNav[1].month = 12)
          => /\ calendar_month = 1
             /\ calendar_year = lastNav[1].year + 1
    /\ (lastNav # <<>> /\ lastNav[1].op = "Prev" /\ lastNav[1].month = 1)
          => /\ calendar_month = 12
             /\ calendar_year = lastNav[1].year - 1
    /\ (/\ Len(lastNav) = 2
        /\ <<lastNav[2].op, lastNav[1].op>>
              \in {<<"Prev", "Next">>, <<"Next", "Prev">>})
          => /\ calendar_month = lastNav[2].month
             /\ calendar_year = lastNav[2].year

\* Reached: from December 2022, Next and then Prev: December 2022 again,
\* by way of January 2023.
C28_Witness ==
    /\ Len(lastNav) = 2
    /\ lastNav[2] = [op |-> "Next", month |-> 12, year |-> FirstYear + 1]
    /\ lastNav[1] = [op |-> "Prev", month |-> 1, year |-> FirstYear + 2]
    /\ calendar_month = 12
    /\ calendar_year = FirstYear + 1

(***************************************************************************)
(* C29: in every reachable session state a data page (dashboard, calendar, *)
(* money, analytics, todo) is shown only while authenticated is true,      *)
(* couple_id is the identifier a successful verify_couple_login returned,  *)
(* and current_partner is one of that household's two partner names; after *)
(* Logout none of them is shown until a new successful login.              *)
(***************************************************************************)
LoginSucceeds ==
    /\ answer'.outcome = "returned"
    /\ answer'.op = "verify_couple_login"
    /\ answer'.value.couple_id = couple_id'
    /\ \E i \in 1..Len(couple_accounts) :
          /\ couple_accounts[i].couple_id = couple_id'
          /\ couple_accounts[i].email = answer'.args.email
          /\ couple_accounts[i].password_hash
                = <<"sha256">> \o answer'.args.password

C29_DataPagesNeedSession ==
    /\ [](Screen \in DataPages =>
            /\ authenticated
            /\ \E i \in 1..Len(couple_accounts) :
                  /\ couple_accounts[i].couple_id = couple_id
                  /\ current_partner
                        \in {couple_accounts[i].partner1_name,
                             couple_accounts[i].partner2_name})
    /\ [][/\ couple_id' # couple_id => (couple_id' = NULL \/ LoginSucceeds)
          /\ (~authenticated /\ authenticated') => LoginSucceeds
          /\ (authenticated /\ ~authenticated')
                => (Screen' \notin DataPages /\ couple_id' = NULL)]_vars

\* Reached: the household that signed up in this session has logged in,
\* its second partner was selected and looks at the analytics page.
C29_Witness ==
    /\ Screen = "analytics"
    /\ authenticated
    /\ couple_id = Uuid(3)
    /\ couple_accounts[3].couple_id = Uuid(3)
    /\ current_partner = Txt("Flo")

====
